---- MODULE Spec2Model ----
(***************************************************************************)
(* Package-manager classification of GitHub repositories (src/index.ts,    *)
(* src/utils.ts): the per-repository cascade of existence checks and body  *)
(* fetches, the shared counters it updates, the two caches behind the      *)
(* probes, and the iteration over the repository list.                     *)
(*                                                                         *)
(* Texts are TLA+ strings; the regular expressions and string operations   *)
(* of the code are computed on their characters.                           *)
(***************************************************************************)
EXTENDS Integers, Sequences, FiniteSets, TLC

VARIABLES
    DEBUG,                       \* process.env.DEBUG === 'true'
    flattenedResults,            \* the repository list being classified
    pc,                          \* per repository: the await its callback is suspended at
    checked,                     \* per repository: <<path, answer>> of every checkIfFileExists call, in order
    fetched,                     \* per repository: path -> text returned by fetchWithCache
    counted,                     \* per repository: the packageManagerStats key it was counted under
    thrown,                      \* per repository: the error its callback threw, or "none"
    stats,
    packageManagerStats,
    packageManagerVersionStats,
    fileExistsStats,             \* url -> boolean, the existence cache
    fetchCache,                  \* cacheKey -> text, the files under .cache/fetch
    phase,                       \* "classifying", "aborted" or "written"
    resultFiles,                 \* document -> content, the result documents on disk
    remote,                      \* per repository: the name in Trees of what GitHub serves for it
    awaiting,                    \* per repository: what resolves the pending await
    rawVersionStats,             \* charts script: the histogram given to mergeVersionStats
    mergeResult,                 \* charts script: <<>>, or <<what mergeVersionStats returned>>
    charts,                      \* charts script: the names of the version charts written
    languagePages,               \* fetchLanguagePages: the language, i, totalPages, results and position of one call
    search                       \* GitHub search: the total_count it reports and how often that has changed

vars == <<DEBUG, flattenedResults, pc, checked, fetched, counted, thrown, stats,
          packageManagerStats, packageManagerVersionStats, fileExistsStats,
          fetchCache, phase, resultFiles, remote, awaiting, rawVersionStats, mergeResult,
          charts, languagePages, search>>

\* the state of the charts script
chartVars == <<rawVersionStats, mergeResult, charts>>

\* the state of one call of fetchLanguagePages and of the search it queries
pagesVars == <<languagePages, search>>

----------------------------------------------------------------------------
(* JavaScript strings *)

Digits == {"0", "1", "2", "3", "4", "5", "6", "7", "8", "9"}

UpperCaseLetters == "ABCDEFGHIJKLMNOPQRSTUVWXYZ"

LowerCaseLetters == "abcdefghijklmnopqrstuvwxyz"

\* s[i - 1] of JavaScript, "" outside the string
CharAt(s, i) == IF i \in 1..Len(s) THEN SubSeq(s, i, i) ELSE ""

\* the positions at which pat occurs in s
Occurrences(s, pat) ==
    {i \in 1..(Len(s) - Len(pat) + 1) : SubSeq(s, i, i + Len(pat) - 1) = pat}

\* s.indexOf(pat) + 1, or 0 when there is no occurrence
IndexOf(s, pat) ==
    IF Occurrences(s, pat) = {} THEN 0
    ELSE CHOOSE i \in Occurrences(s, pat) : \A j \in Occurrences(s, pat) : i <= j

\* s.lastIndexOf(pat) + 1, or 0 when there is no occurrence
LastIndexOf(s, pat) ==
    IF Occurrences(s, pat) = {} THEN 0
    ELSE CHOOSE i \in Occurrences(s, pat) : \A j \in Occurrences(s, pat) : i >= j

\* String.prototype.toLowerCase on one character
LowerChar(c) ==
    IF IndexOf(UpperCaseLetters, c) > 0
    THEN CharAt(LowerCaseLetters, IndexOf(UpperCaseLetters, c))
    ELSE c

\* s.toLowerCase(), computed on the two halves of s
RECURSIVE ToLowerCase(_)
ToLowerCase(s) ==
    IF Len(s) = 0 THEN ""
    ELSE IF Len(s) = 1 THEN LowerChar(s)
    ELSE ToLowerCase(SubSeq(s, 1, Len(s) \div 2))
            \o ToLowerCase(SubSeq(s, Len(s) \div 2 + 1, Len(s)))

\* s.match(/pat/) for a pattern without metacharacters
Includes(s, pat) == Occurrences(s, pat) # {}

\* s.match(/pat/i) for a pattern without metacharacters (pat given in lower case)
MatchesI(s, pat) == Includes(ToLowerCase(s), pat)

\* s.slice(0, end) with a JavaScript index end >= -1
SliceTo(s, end) ==
    IF end < 0 THEN SubSeq(s, 1, Len(s) + end)
    ELSE IF end > Len(s) THEN s ELSE SubSeq(s, 1, end)

\* s.split('\n').slice(0, n).join('\n')
RECURSIVE FirstLines(_, _)
FirstLines(s, n) ==
    IF n = 0 THEN ""
    ELSE IF IndexOf(s, "\n") = 0 THEN s
    ELSE IF n = 1 THEN SubSeq(s, 1, IndexOf(s, "\n") - 1)
    ELSE SubSeq(s, 1, IndexOf(s, "\n")) \o
         FirstLines(SubSeq(s, IndexOf(s, "\n") + 1, Len(s)), n - 1)

\* the longest run of decimal digits of s that starts at position i
RECURSIVE DigitRun(_, _)
DigitRun(s, i) ==
    IF CharAt(s, i) \in Digits THEN CharAt(s, i) \o DigitRun(s, i + 1) ELSE ""

DigitValue(c) == IndexOf("0123456789", c) - 1

\* Number(digits) for a non-empty string of decimal digits
RECURSIVE ToNumber(_)
ToNumber(digits) ==
    IF Len(digits) = 1 THEN DigitValue(digits)
    ELSE 10 * ToNumber(SubSeq(digits, 1, Len(digits) - 1))
         + DigitValue(CharAt(digits, Len(digits)))

----------------------------------------------------------------------------
(* JavaScript values read from parsed documents: the type and String(value) *)

Undefined == [t |-> "undefined", s |-> "undefined"]

Str(s) == [t |-> "string", s |-> s]

Num(s) == [t |-> "number", s |-> s]

\* !value
Falsy(v) ==
    \/ v.t = "undefined"
    \/ v.t = "string" /\ v.s = ""
    \/ v.t = "number" /\ v.s = "0"

----------------------------------------------------------------------------
(* The documents a repository may serve *)

PackageManagerValues ==
    {"pnpm@8.6.0", "pnpm@9.1.0", "npm@10.2.0", "yarn@1.22.19", "yarn@3.6.0",
     "yarn@10.0.0", "yarn@v4.0.0", "bun@1.1.0", "deno@2.0.0", "yarn", ""}

ScriptValues ==
    {"tsc", "pnpm run lint", "pnpm install", "pnpm test", "yarn build", "npx tsc"}

PkgWithManager(v) == "{\"packageManager\":\"" \o v \o "\"}"

PkgWithScript(s) == "{\"scripts\":{\"build\":\"" \o s \o "\"}}"

PkgTruncated == "{\"scripts\":{\"build\":\"bun run lint\""

PackageJsonTexts ==
    {PkgWithManager(v) : v \in PackageManagerValues}
        \cup {PkgWithScript(s) : s \in ScriptValues} \cup {PkgTruncated}

LockfileVersions == {"1", "2", "3", "4"}

LockWithVersion(n) ==
    "{\n  \"name\": \"app\",\n  \"lockfileVersion\": " \o n
        \o ",\n  \"requires\": true,\n  \"packages\": {}\n}"

LockWithoutVersion == "{\n  \"name\": \"app\",\n  \"dependencies\": {}\n}"

LockTruncated(n) ==
    "{\n  \"name\": \"app\",\n  \"lockfileVersion\": " \o n
        \o ",\n  \"requires\": true,\n  \"packages\": {\n    \"\": {"

LockRecovered(n) ==
    "{\n  \"name\": \"app\",\n  \"lockfileVersion\": " \o n \o ",\n  \"requires\": true\n}"

LockNotJson == "<!DOCTYPE html>"

PackageLockTexts ==
    {LockWithVersion(n) : n \in LockfileVersions}
        \cup {LockWithoutVersion, LockTruncated("2"), LockNotJson}

YarnClassic ==
    "# THIS IS AN AUTOGENERATED FILE.\n# yarn lockfile v1\n\n\nleft-pad@^1.3.0:\n  version \"1.3.0\"\n"

YarnClassicUpperCase == "# YARN LOCKFILE V1\n"

YarnClassicWithMetadata == "# yarn lockfile v1\n\n__metadata:\n  version: 8\n"

YarnMetadataVersions == {"4", "5", "6", "7", "8"}

YarnModern(v) ==
    "# Generated by \"yarn install\".\n# Manual changes might be lost!\n\n__metadata:\n  version: "
        \o v
        \o "\n  cacheKey: 10c0\n\n\"a@npm:^1.3.0\":\n  version: 1.3.0\n  resolution: \"a@npm:1.3.0\"\n  checksum: 10c0\n  linkType: hard\n"

YarnModernNoVersion == "__metadata:\n  cacheKey: 10c0\n"

YarnNoMetadata == "\"left-pad@npm:^1.3.0\":\n  version: 1.3.0\n"

YarnEmpty == ""

YarnLockTexts ==
    {YarnClassic, YarnClassicUpperCase, YarnClassicWithMetadata, YarnModernNoVersion,
     YarnNoMetadata, YarnEmpty} \cup {YarnModern(v) : v \in YarnMetadataVersions}

\* the scalar after "lockfileVersion: " and the value the YAML parser reads from it
PnpmLockfileVersions ==
    {[src |-> "'9.0'", value |-> Str("9.0")],
     [src |-> "'6.0'", value |-> Str("6.0")],
     [src |-> "6.0", value |-> Num("6")],
     [src |-> "5.4", value |-> Num("5.4")],
     [src |-> "5.1", value |-> Num("5.1")]}

PnpmLock(src) == "lockfileVersion: " \o src \o "\n\nsettings:\n  autoInstallPeers: true\n"

PnpmNoVersion == "dependencies:\n  left-pad: 1.3.0\n"

PnpmEmptyFirstLine == "\nlockfileVersion: 5.4\n"

PnpmEmpty == ""

PnpmLockTexts ==
    {PnpmLock(e.src) : e \in PnpmLockfileVersions}
        \cup {PnpmNoVersion, PnpmEmptyFirstLine, PnpmEmpty}

\* CONTRIBUTING.md and .github/workflows/ci.yml
ProseTexts ==
    {"Run pnpm install first.", "Then pnpm run build.", "Check with pnpm test.",
     "Run yarn to install.", "Use bun install.", "Run npm ci.", "Open a pull request."}

----------------------------------------------------------------------------
(* The library parsers, on the documents above *)

\* JSON.parse: whether the text parses, and the two fields the code reads
JsonParse(text) ==
    IF \E v \in PackageManagerValues : text = PkgWithManager(v)
    THEN [valid |-> TRUE, hasPackageManager |-> TRUE,
          packageManager |-> CHOOSE v \in PackageManagerValues : text = PkgWithManager(v),
          lockfileVersion |-> Undefined]
    ELSE IF \E s \in ScriptValues : text = PkgWithScript(s)
    THEN [valid |-> TRUE, hasPackageManager |-> FALSE, packageManager |-> "",
          lockfileVersion |-> Undefined]
    ELSE IF \E n \in LockfileVersions : text \in {LockWithVersion(n), LockRecovered(n)}
    THEN [valid |-> TRUE, hasPackageManager |-> FALSE, packageManager |-> "",
          lockfileVersion |->
              Num(CHOOSE n \in LockfileVersions : text \in {LockWithVersion(n), LockRecovered(n)})]
    ELSE IF text = LockWithoutVersion
    THEN [valid |-> TRUE, hasPackageManager |-> FALSE, packageManager |-> "",
          lockfileVersion |-> Undefined]
    ELSE [valid |-> FALSE, hasPackageManager |-> FALSE, packageManager |-> "",
          lockfileVersion |-> Undefined]

YamlNull == [kind |-> "null", hasMetadata |-> FALSE, version |-> Undefined,
             lockfileVersion |-> Undefined]

YamlMapping(hasMetadata, version, lockfileVersion) ==
    [kind |-> "mapping", hasMetadata |-> hasMetadata, version |-> version,
     lockfileVersion |-> lockfileVersion]

\* parse() of the yaml package: null for an empty or comment-only document,
\* otherwise the mapping, of which the code reads __metadata.version or lockfileVersion
ParseYaml(text) ==
    IF \E v \in YarnMetadataVersions : text = FirstLines(YarnModern(v), 10)
    THEN YamlMapping(TRUE,
            Num(CHOOSE v \in YarnMetadataVersions : text = FirstLines(YarnModern(v), 10)),
            Undefined)
    ELSE IF text = YarnClassicWithMetadata THEN YamlMapping(TRUE, Num("8"), Undefined)
    ELSE IF text = YarnModernNoVersion THEN YamlMapping(TRUE, Undefined, Undefined)
    ELSE IF text = YarnNoMetadata THEN YamlMapping(FALSE, Undefined, Undefined)
    ELSE IF \E e \in PnpmLockfileVersions : text = "lockfileVersion: " \o e.src
    THEN YamlMapping(FALSE, Undefined,
            (CHOOSE e \in PnpmLockfileVersions : text = "lockfileVersion: " \o e.src).value)
    ELSE IF text = "dependencies:" THEN YamlMapping(FALSE, Undefined, Undefined)
    ELSE YamlNull

----------------------------------------------------------------------------
(* The counters *)

InitialStats(total) ==
    [total |-> total, nodejs |-> 0, non_nodejs |-> 0, uses_corepack |-> 0,
     does_not_use_corepack |-> 0, has_lockfile |-> 0, does_not_have_lockfile |-> 0]

PackageManagers == {"npm", "yarn_classic", "yarn_modern", "pnpm", "bun", "unknown"}

VersionedPackageManagers == PackageManagers \ {"unknown"}

InitialPackageManagerStats == [m \in PackageManagers |-> 0]

\* an object without keys
EmptyObject == [k \in {} |-> 0]

InitialPackageManagerVersionStats == [m \in VersionedPackageManagers |-> EmptyObject]

\* h[label] = (h[label] ?? 0) + 1
Bump(h, label) ==
    IF label \in DOMAIN h THEN [h EXCEPT ![label] = @ + 1] ELSE h @@ (label :> 1)

\* table[key] ?? 'unknown'
LookupOrUnknown(table, key) == IF key \in DOMAIN table THEN table[key] ELSE "unknown"

(* What the code between two awaits does: the fields of stats it increments,  *)
(* the packageManagerStats key it increments, the histogram and label it      *)
(* increments, the error it throws, and the await it stops at ("done" at a    *)
(* return, "threw" at a throw). "none" stands for no increment and no error.  *)
Effect(next, statFields, manager, versionOf, label, error) ==
    [next |-> next, stats |-> statFields, manager |-> manager, versionOf |-> versionOf,
     label |-> label, thrown |-> error]

\* stops at the next await, having incremented the given fields of stats
GoOn(next, statFields) == Effect(next, statFields, "none", "none", "none", "none")

\* returns, having counted the repository under manager with a version label
Detected(statFields, manager, label) ==
    Effect("done", statFields, manager, manager, label, "none")

\* returns, having counted the repository under manager without a version label
DetectedWithoutVersion(statFields, manager) ==
    Effect("done", statFields, manager, "none", "none", "none")

\* throws, after the given increments
Throws(statFields, manager, error) ==
    Effect("threw", statFields, manager, "none", "none", error)

----------------------------------------------------------------------------
(* package.json and its packageManager field *)

\* packageManager.match(/@v?(\d+)/) tried at position i: the captured digits, "" if none
VersionMatchAt(s, i) ==
    IF CharAt(s, i) # "@" THEN ""
    ELSE IF CharAt(s, i + 1) = "v" /\ DigitRun(s, i + 2) # "" THEN DigitRun(s, i + 2)
    ELSE DigitRun(s, i + 1)

\* packageManager.match(/@v?(\d+)/): the digits captured by the leftmost match, "" for null
VersionMatch(s) ==
    IF \E i \in 1..Len(s) : VersionMatchAt(s, i) # ""
    THEN VersionMatchAt(s, CHOOSE i \in 1..Len(s) :
            /\ VersionMatchAt(s, i) # ""
            /\ \A j \in 1..(i - 1) : VersionMatchAt(s, j) = "")
    ELSE ""

\* packageManager.match(/yarn@[2-9]/i)
MatchesYarnModern(s) ==
    \E d \in {"2", "3", "4", "5", "6", "7", "8", "9"} : MatchesI(s, "yarn@" \o d)

\* PackageManagerBranch with the final throw replaced by a count under unknown
PackageManagerBranchLenient(packageManager) ==
    LET versionMatch == VersionMatch(packageManager)
        version == ToString(ToNumber(versionMatch))
    IN  IF versionMatch = ""
        THEN Throws({"uses_corepack"}, "none", "packageManager version not recognized")
        ELSE IF MatchesI(packageManager, "npm")
        THEN Detected({"uses_corepack"}, "npm", version)
        ELSE IF MatchesI(packageManager, "yarn@1")
        THEN Detected({"uses_corepack"}, "yarn_classic", version)
        ELSE IF MatchesYarnModern(packageManager)
        THEN Detected({"uses_corepack"}, "yarn_modern", version)
        ELSE IF MatchesI(packageManager, "pnpm")
        THEN Detected({"uses_corepack"}, "pnpm", version)
        ELSE IF MatchesI(packageManager, "bun")
        THEN Detected({"uses_corepack"}, "bun", version)
        ELSE DetectedWithoutVersion({"uses_corepack"}, "unknown")

\* the branch taken when package.json has a packageManager
PackageManagerBranch(packageManager) ==
    LET versionMatch == VersionMatch(packageManager)
        version == ToString(ToNumber(versionMatch))
    IN  IF versionMatch = ""
        THEN Throws({"uses_corepack"}, "none", "packageManager version not recognized")
        ELSE IF MatchesI(packageManager, "npm")
        THEN Detected({"uses_corepack"}, "npm", version)
        ELSE IF MatchesI(packageManager, "yarn@1")
        THEN Detected({"uses_corepack"}, "yarn_classic", version)
        ELSE IF MatchesYarnModern(packageManager)
        THEN Detected({"uses_corepack"}, "yarn_modern", version)
        ELSE IF MatchesI(packageManager, "pnpm")
        THEN Detected({"uses_corepack"}, "pnpm", version)
        ELSE IF MatchesI(packageManager, "bun")
        THEN Detected({"uses_corepack"}, "bun", version)
        ELSE Throws({"uses_corepack"}, "none", "packageManager not recognized")

\* the code that runs once the text of package.json has arrived
PackageJsonFetched(rawPackageJson) ==
    LET packageJson == JsonParse(rawPackageJson)
    IN  IF packageJson.valid /\ packageJson.packageManager # ""
        THEN PackageManagerBranch(packageJson.packageManager)
        ELSE IF packageJson.valid
        THEN GoOn("checkPackageLockJson", {"does_not_use_corepack"})
        ELSE GoOn("checkPackageLockJson", {})

----------------------------------------------------------------------------
(* The lockfiles *)

\* lockfileVersionToNpmVersionMap with the entry of lockfileVersion 3 out of date
lockfileVersionToNpmVersionMapStale ==
    ("1" :> "5_or_6") @@ ("2" :> "7_or_8") @@ ("3" :> "9_or_10")

lockfileVersionToNpmVersionMap ==
    ("1" :> "5_or_6") @@ ("2" :> "7_or_8") @@ ("3" :> "9_or_10_or_11")

\* the text parsed when package-lock.json is not valid JSON
PartialJson(packageLockJson) ==
    LET firstFiveLines == FirstLines(packageLockJson, 5)
        lastCommaIndex == LastIndexOf(firstFiveLines, ",") - 1
    IN  SliceTo(firstFiveLines, lastCommaIndex) \o "\n}"

\* PackageLockJsonFetched that records no version when there is no lockfileVersion
PackageLockJsonFetchedWithoutUnknown(packageLockJson) ==
    LET direct == JsonParse(packageLockJson)
        parsedPackageLockJson ==
            IF direct.valid THEN direct ELSE JsonParse(PartialJson(packageLockJson))
        packageLockJsonVersion == parsedPackageLockJson.lockfileVersion
    IN  IF ~parsedPackageLockJson.valid
        THEN Throws({}, "none", "Invalid package-lock.json")
        ELSE IF Falsy(packageLockJsonVersion)
        THEN GoOn("done", {})
        ELSE Effect("done", {}, "none", "npm",
                LookupOrUnknown(lockfileVersionToNpmVersionMap, packageLockJsonVersion.s),
                "none")

\* the code that runs once the text of package-lock.json has arrived
PackageLockJsonFetched(packageLockJson) ==
    LET direct == JsonParse(packageLockJson)
        parsedPackageLockJson ==
            IF direct.valid THEN direct ELSE JsonParse(PartialJson(packageLockJson))
        packageLockJsonVersion == parsedPackageLockJson.lockfileVersion
    IN  IF ~parsedPackageLockJson.valid
        THEN Throws({}, "none", "Invalid package-lock.json")
        ELSE IF Falsy(packageLockJsonVersion)
        THEN Effect("done", {}, "none", "npm", "unknown", "none")
        ELSE Effect("done", {}, "none", "npm",
                LookupOrUnknown(lockfileVersionToNpmVersionMap, packageLockJsonVersion.s),
                "none")

lockfileVersionToYarnVersionMap ==
    ("4" :> "3") @@ ("5" :> "3") @@ ("6" :> "3") @@ ("8" :> "4")

TypeError == "TypeError: Cannot read properties"

\* YarnLockFetched with the header matched case-sensitively
YarnLockFetchedCaseSensitive(yarnLock) ==
    IF Includes(yarnLock, "# yarn lockfile v1")
    THEN Detected({}, "yarn_classic", "1")
    ELSE LET parsed == ParseYaml(FirstLines(yarnLock, 10))
             lockfileVersion == parsed.version
         IN  IF parsed.kind = "null" \/ ~parsed.hasMetadata
             THEN Throws({}, "yarn_modern", TypeError)
             ELSE IF Falsy(lockfileVersion)
             THEN Detected({}, "yarn_modern", "unknown")
             ELSE Detected({}, "yarn_modern",
                     LookupOrUnknown(lockfileVersionToYarnVersionMap, lockfileVersion.s))

\* the code that runs once the text of yarn.lock has arrived
YarnLockFetched(yarnLock) ==
    IF MatchesI(yarnLock, "# yarn lockfile v1")
    THEN Detected({}, "yarn_classic", "1")
    ELSE LET parsed == ParseYaml(FirstLines(yarnLock, 10))
             lockfileVersion == parsed.version
         IN  IF parsed.kind = "null" \/ ~parsed.hasMetadata
             THEN Throws({}, "yarn_modern", TypeError)
             ELSE IF Falsy(lockfileVersion)
             THEN Detected({}, "yarn_modern", "unknown")
             ELSE Detected({}, "yarn_modern",
                     LookupOrUnknown(lockfileVersionToYarnVersionMap, lockfileVersion.s))

lockfileVersionToPnpmVersionMap ==
    ("5" :> "3") @@ ("5.1" :> "3_or_4_or_5") @@ ("5.2" :> "5") @@ ("5.3" :> "6")
        @@ ("5.4" :> "7") @@ ("6.0" :> "8") @@ ("6.1" :> "9") @@ ("7.0" :> "9")
        @@ ("9.0" :> "9_or_10")

\* the code that runs once the text of pnpm-lock.yaml has arrived
PnpmLockYamlFetched(pnpmLockYaml) ==
    LET firstLineOfPnpmLockYaml == FirstLines(pnpmLockYaml, 1)
        parsed == ParseYaml(firstLineOfPnpmLockYaml)
        lockfileVersion == parsed.lockfileVersion
    IN  IF parsed.kind = "null"
        THEN Throws({}, "none", TypeError)
        ELSE IF Falsy(lockfileVersion)
        THEN Effect("done", {}, "none", "pnpm", "unknown", "none")
        ELSE Effect("done", {}, "none", "pnpm",
                LookupOrUnknown(lockfileVersionToPnpmVersionMap, lockfileVersion.s), "none")

----------------------------------------------------------------------------
(* The text fallbacks *)

\* text.match(/<tool> (w1|w2|...)/i)
MatchesIdiom(text, tool, words) == \E w \in words : MatchesI(text, tool \o " " \o w)

\* the four entries of regexes
RegexNpm(text) == MatchesIdiom(text, "npm", {"ci", "install", "run", "test"})

RegexYarn(text) == MatchesI(text, "yarn")

RegexPnpm(text) == MatchesIdiom(text, "pnpm", {"install", "run", "test"})

RegexBun(text) == MatchesIdiom(text, "bun", {"install", "run", "test"})

\* the manager the scripts of the raw package.json point to, "none" if no pattern matches
ScriptsManager(rawPackageJson) ==
    IF rawPackageJson = "" THEN "none"
    ELSE IF MatchesI(rawPackageJson, "npm run") THEN "npm"
    ELSE IF MatchesI(rawPackageJson, "yarn run") THEN "unknown"
    ELSE IF MatchesI(rawPackageJson, "pnpm run") THEN "pnpm"
    ELSE IF MatchesI(rawPackageJson, "bun run") THEN "bun"
    ELSE IF MatchesI(rawPackageJson, "npx") THEN "npm"
    ELSE "none"

\* the manager CONTRIBUTING.md or ci.yml points to, "none" if no pattern matches
ProseManager(text) ==
    IF RegexNpm(text) THEN "npm"
    ELSE IF RegexYarn(text) THEN "unknown"
    ELSE IF RegexPnpm(text) THEN "pnpm"
    ELSE IF RegexBun(text) THEN "bun"
    ELSE "none"

\* the code that runs once neither bun.lockb nor bun.lock was found
NoLockfileFound(rawPackageJson) ==
    IF ScriptsManager(rawPackageJson) # "none"
    THEN DetectedWithoutVersion({"does_not_have_lockfile"}, ScriptsManager(rawPackageJson))
    ELSE GoOn("checkContributingMd", {"does_not_have_lockfile"})

\* the code that runs once the text of CONTRIBUTING.md has arrived
ContributingMdFetched(contributingMd) ==
    IF ProseManager(contributingMd) # "none"
    THEN DetectedWithoutVersion({}, ProseManager(contributingMd))
    ELSE GoOn("checkCiYml", {})

\* NothingDetected without the last increment of packageManagerStats.unknown
NothingDetectedUncounted == GoOn("done", {})

\* the end of the callback: no package manager detected
NothingDetected == DetectedWithoutVersion({}, "unknown")

\* the code that runs once the text of ci.yml has arrived
CiYmlFetched(githubWorkflowsCiYml) ==
    IF ProseManager(githubWorkflowsCiYml) # "none"
    THEN DetectedWithoutVersion({}, ProseManager(githubWorkflowsCiYml))
    ELSE NothingDetected

----------------------------------------------------------------------------
(* The probes *)

RepositoryLists ==
    {<<[name |-> "vuejs/core", default_branch |-> "main"],
       [name |-> "sveltejs/svelte", default_branch |-> "main"]>>}

\* two repositories whose names differ in one character that is not a letter or digit
CollidingRepositoryLists ==
    {<<[name |-> "acme/left.pad", default_branch |-> "main"],
       [name |-> "acme/left-pad", default_branch |-> "main"]>>}

Repos == 1..Len(flattenedResults)

\* the paths probed, by the await at which checkIfFileExistsInRepo is pending
CheckPcs ==
    ("checkPackageJson" :> "package.json")
        @@ ("checkPackageLockJson" :> "package-lock.json")
        @@ ("checkNpmShrinkwrapJson" :> "npm-shrinkwrap.json")
        @@ ("checkYarnLock" :> "yarn.lock")
        @@ ("checkPnpmLockYaml" :> "pnpm-lock.yaml")
        @@ ("checkBunLockb" :> "bun.lockb")
        @@ ("checkBunLock" :> "bun.lock")
        @@ ("checkContributingMd" :> "CONTRIBUTING.md")
        @@ ("checkCiYml" :> ".github/workflows/ci.yml")

\* the paths fetched, by the await at which fetchWithCacheInRepo is pending
FetchPcs ==
    ("fetchPackageJson" :> "package.json")
        @@ ("fetchPackageLockJson" :> "package-lock.json")
        @@ ("fetchYarnLock" :> "yarn.lock")
        @@ ("fetchPnpmLockYaml" :> "pnpm-lock.yaml")
        @@ ("fetchContributingMd" :> "CONTRIBUTING.md")
        @@ ("fetchCiYml" :> ".github/workflows/ci.yml")

\* the URL built by fetchWithCacheInRepo and checkIfFileExistsInRepo
RawUrl(name, branch, path) ==
    "https://raw.githubusercontent.com/" \o name \o "/" \o branch \o "/" \o path

UrlInRepo(r, path) ==
    RawUrl(flattenedResults[r].name, flattenedResults[r].default_branch, path)

\* HTTP status of a response: found, not found, any other failure
ResponseStatuses == {200, 404, 500}

(* What resolves a pending await: a response of the network to the request  *)
(* sent at the call, or the value read from a cache at the call.             *)
NotAwaiting == [from |-> "none", result |-> FALSE, text |-> ""]

FromNetwork == [from |-> "network", result |-> FALSE, text |-> ""]

FromFileExistsStats(result) == [from |-> "cache", result |-> result, text |-> ""]

FromFetchCache(text) == [from |-> "cache", result |-> FALSE, text |-> text]

\* checkIfFileExistsCall without the lookup in fileExistsStats
checkIfFileExistsCallWithoutLookup(cache, url) == FromNetwork

\* checkIfFileExists(url) up to its return from the cache or its HEAD request
checkIfFileExistsCall(cache, url) ==
    IF url \in DOMAIN cache THEN FromFileExistsStats(cache[url]) ELSE FromNetwork

\* checkIfFileExists(url) from the call that left it pending; status answers its HEAD request
checkIfFileExists(cache, pending, url, status) ==
    IF pending.from = "cache"
    THEN [threw |-> FALSE, result |-> pending.result, cache |-> cache, status |-> status]
    ELSE IF status = 200
    THEN [threw |-> FALSE, result |-> TRUE, cache |-> (url :> TRUE) @@ cache, status |-> status]
    ELSE IF status = 404
    THEN [threw |-> FALSE, result |-> FALSE, cache |-> (url :> FALSE) @@ cache, status |-> status]
    ELSE [threw |-> TRUE, result |-> FALSE, cache |-> cache, status |-> status]

\* one character of input.toString().replace(/[^a-z0-9]/gi, '_').toLowerCase()
CacheKeyChar(ch) ==
    IF ch \in Digits \/ IndexOf(LowerCaseLetters, ch) > 0 \/ IndexOf(UpperCaseLetters, ch) > 0
    THEN LowerChar(ch)
    ELSE "_"

\* the cacheKey of fetchWithCache, computed on the two halves of the URL
RECURSIVE CacheKey(_)
CacheKey(url) ==
    IF Len(url) = 0 THEN ""
    ELSE IF Len(url) = 1 THEN CacheKeyChar(url)
    ELSE CacheKey(SubSeq(url, 1, Len(url) \div 2))
            \o CacheKey(SubSeq(url, Len(url) \div 2 + 1, Len(url)))

\* every repository of the lists
Repositories ==
    UNION {{l[i] : i \in DOMAIN l} : l \in RepositoryLists \cup CollidingRepositoryLists}

\* the cacheKey of every URL a run can fetch
CacheKeys ==
    [url \in {RawUrl(repo.name, repo.default_branch, FetchPcs[at]) :
                repo \in Repositories, at \in DOMAIN FetchPcs}
        |-> CacheKey(url)]

\* the texts a GET of the path may be answered with
TextsAt(path) ==
    CASE path = "package.json" -> PackageJsonTexts
      [] path = "package-lock.json" -> PackageLockTexts
      [] path = "yarn.lock" -> YarnLockTexts
      [] path = "pnpm-lock.yaml" -> PnpmLockTexts
      [] OTHER -> ProseTexts

\* a response with a body
Ok(text) == [ok |-> TRUE, status |-> 200, text |-> text]

\* a response that is not ok
Failed(status) == [ok |-> FALSE, status |-> status, text |-> ""]

\* the final answers to a GET: a body, or the failure left after the retries of pRetry
Responses(path) ==
    {Ok(t) : t \in TextsAt(path)} \cup {Failed(status) : status \in ResponseStatuses \ {200}}

\* fetchWithCache(url) up to its return from the cache or its GET request
fetchWithCacheCall(cache, url) ==
    IF CacheKeys[url] \in DOMAIN cache THEN FromFetchCache(cache[CacheKeys[url]]) ELSE FromNetwork

\* fetchWithCache(url) from the call that left it pending; response answers its GET request
fetchWithCache(cache, pending, url, response) ==
    IF pending.from = "cache"
    THEN [threw |-> FALSE, text |-> pending.text, cache |-> cache, status |-> response.status]
    ELSE IF response.ok
    THEN [threw |-> FALSE, text |-> response.text,
          cache |-> (CacheKeys[url] :> response.text) @@ cache, status |-> response.status]
    ELSE [threw |-> TRUE, text |-> "", cache |-> cache, status |-> response.status]

\* every path probed in a repository
Paths == {CheckPcs[at] : at \in DOMAIN CheckPcs}

(* What GitHub serves for one repository: for each path the statuses a HEAD   *)
(* request may be answered with and the responses a GET request may be        *)
(* answered with. A tree that never changes has one of each per path.         *)
FixedTree(files) ==
    [path \in Paths |->
        IF path \in DOMAIN files
        THEN [head |-> {200}, get |-> {Ok(files[path])}]
        ELSE [head |-> {404}, get |-> {Failed(404)}]]

\* files pushed and deleted at any time, requests failing at any time
ChangingTree == [path \in Paths |-> [head |-> ResponseStatuses, get |-> Responses(path)]]

\* a server that answers every request with status 500
UnavailableTree == [path \in Paths |-> [head |-> {500}, get |-> {Failed(500)}]]

PlainPackageJson == "package.json" :> PkgWithScript("tsc")

Trees ==
    ("changing" :> ChangingTree)
        @@ ("unavailable" :> UnavailableTree)
        @@ ("no package.json" :> FixedTree(EmptyObject))
        @@ ("packageManager npm" :> FixedTree("package.json" :> PkgWithManager("npm@10.2.0")))
        @@ ("packageManager bun" :> FixedTree("package.json" :> PkgWithManager("bun@1.1.0")))
        @@ ("package-lock.json" :>
                FixedTree(PlainPackageJson @@ ("package-lock.json" :> LockWithVersion("3"))))
        @@ ("npm-shrinkwrap.json" :> FixedTree(PlainPackageJson @@ ("npm-shrinkwrap.json" :> "{}")))
        @@ ("yarn.lock v1" :> FixedTree(PlainPackageJson @@ ("yarn.lock" :> YarnClassic)))
        @@ ("yarn.lock" :> FixedTree(PlainPackageJson @@ ("yarn.lock" :> YarnModern("8"))))
        @@ ("pnpm-lock.yaml" :> FixedTree(PlainPackageJson @@ ("pnpm-lock.yaml" :> PnpmLock("'9.0'"))))
        @@ ("bun.lockb" :> FixedTree(PlainPackageJson @@ ("bun.lockb" :> "")))
        @@ ("bun.lock" :> FixedTree(PlainPackageJson @@ ("bun.lock" :> "{}")))
        @@ ("npx script" :> FixedTree("package.json" :> PkgWithScript("npx tsc")))
        @@ ("CONTRIBUTING.md" :>
                FixedTree(PlainPackageJson @@ ("CONTRIBUTING.md" :> "Use bun install.")))
        @@ ("ci.yml" :>
                FixedTree(PlainPackageJson @@ (".github/workflows/ci.yml" :> "Run npm ci.")))
        @@ ("no hint" :> FixedTree(PlainPackageJson))

\* the trees that never change
FixedTrees == DOMAIN Trees \ {"changing"}

\* the message of the Error thrown for a response that is not ok
NetworkError(status) == "Network error " \o ToString(status)

----------------------------------------------------------------------------
(* What follows each fetch, for every text that can arrive *)

PackageJsonEffects == [t \in PackageJsonTexts |-> PackageJsonFetched(t)]

NoLockfileEffects == [t \in PackageJsonTexts |-> NoLockfileFound(t)]

PackageLockJsonEffects == [t \in PackageLockTexts |-> PackageLockJsonFetched(t)]

YarnLockEffects == [t \in YarnLockTexts |-> YarnLockFetched(t)]

PnpmLockYamlEffects == [t \in PnpmLockTexts |-> PnpmLockYamlFetched(t)]

ContributingMdEffects == [t \in ProseTexts |-> ContributingMdFetched(t)]

CiYmlEffects == [t \in ProseTexts |-> CiYmlFetched(t)]

----------------------------------------------------------------------------
(* The charts script: JavaScript objects and mergeVersionStats *)

(* An object is the sequence of its <<key, value>> entries in the order of     *)
(* Object.keys and Object.entries: the keys that are array indices first, in   *)
(* ascending numeric order, then the other keys in the order of insertion.     *)
IsArrayIndex(key) ==
    /\ Len(key) > 0
    /\ \A i \in 1..Len(key) : CharAt(key, i) \in Digits
    /\ Len(key) > 1 => CharAt(key, 1) # "0"

\* Object.keys(obj)
Keys(obj) == [i \in 1..Len(obj) |-> obj[i][1]]

\* obj[key] !== undefined, for an object without undefined values
HasOwn(obj, key) == \E i \in 1..Len(obj) : obj[i][1] = key

\* obj[key], for a key of obj
Get(obj, key) == obj[CHOOSE i \in 1..Len(obj) : obj[i][1] = key][2]

\* obj[key] = value
Put(obj, key, value) ==
    IF HasOwn(obj, key)
    THEN [i \in 1..Len(obj) |-> IF obj[i][1] = key THEN <<key, value>> ELSE obj[i]]
    ELSE IF IsArrayIndex(key)
    THEN LET n == Cardinality({i \in 1..Len(obj) :
                        IsArrayIndex(obj[i][1]) /\ ToNumber(obj[i][1]) < ToNumber(key)})
         IN  SubSeq(obj, 1, n) \o <<<<key, value>>>> \o SubSeq(obj, n + 1, Len(obj))
    ELSE Append(obj, <<key, value>>)

\* the object that has the entries, set one after the other
RECURSIVE FromEntries(_, _)
FromEntries(entries, obj) ==
    IF entries = <<>> THEN obj
    ELSE FromEntries(Tail(entries), Put(obj, Head(entries)[1], Head(entries)[2]))

\* version.replace('_', ' '): without the g flag only the first underscore
normalizeVersionLabelFirstOnly(version) ==
    IF IndexOf(version, "_") = 0 THEN version
    ELSE SubSeq(version, 1, IndexOf(version, "_") - 1) \o " "
            \o SubSeq(version, IndexOf(version, "_") + 1, Len(version))

\* version.replace(/_/g, ' ')
RECURSIVE normalizeVersionLabel(_)
normalizeVersionLabel(version) ==
    IF Len(version) = 0 THEN ""
    ELSE (IF CharAt(version, 1) = "_" THEN " " ELSE CharAt(version, 1))
            \o normalizeVersionLabel(SubSeq(version, 2, Len(version)))

\* s.split(separator)
RECURSIVE Split(_, _)
Split(s, separator) ==
    IF IndexOf(s, separator) = 0 THEN <<s>>
    ELSE <<SubSeq(s, 1, IndexOf(s, separator) - 1)>>
            \o Split(SubSeq(s, IndexOf(s, separator) + Len(separator), Len(s)), separator)

\* s.trim(), for a string whose only white space is the space character
RECURSIVE Trim(_)
Trim(s) ==
    IF Len(s) = 0 THEN ""
    ELSE IF CharAt(s, 1) = " " THEN Trim(SubSeq(s, 2, Len(s)))
    ELSE IF CharAt(s, Len(s)) = " " THEN Trim(SubSeq(s, 1, Len(s) - 1))
    ELSE s

\* label.split(' or ').map((token) => token.trim()).filter(Boolean)
Tokens(label) ==
    LET parts == Split(label, " or ")
    IN  SelectSeq([i \in 1..Len(parts) |-> Trim(parts[i])], LAMBDA token : token # "")

\* tokens.forEach: a token that has no group yet gets the label
RECURSIVE AddTokens(_, _, _)
AddTokens(tokenToGroup, tokens, label) ==
    IF tokens = <<>> THEN tokenToGroup
    ELSE AddTokens(IF HasOwn(tokenToGroup, Head(tokens)) THEN tokenToGroup
                   ELSE Put(tokenToGroup, Head(tokens), label),
                   Tail(tokens), label)

\* BuildTokenToGroup with tokenToGroup[token] = version: the raw text as the group
RECURSIVE BuildTokenToGroupRawText(_, _)
BuildTokenToGroupRawText(versions, tokenToGroup) ==
    IF versions = <<>> THEN tokenToGroup
    ELSE LET label == normalizeVersionLabel(Head(versions))
         IN  BuildTokenToGroupRawText(Tail(versions),
                IF ~Includes(label, " or ") THEN tokenToGroup
                ELSE AddTokens(tokenToGroup, Tokens(label), Head(versions)))

\* Object.keys(stats).forEach: the token lookup built from the ambiguous labels
RECURSIVE BuildTokenToGroup(_, _)
BuildTokenToGroup(versions, tokenToGroup) ==
    IF versions = <<>> THEN tokenToGroup
    ELSE LET label == normalizeVersionLabel(Head(versions))
         IN  BuildTokenToGroup(Tail(versions),
                IF ~Includes(label, " or ") THEN tokenToGroup
                ELSE AddTokens(tokenToGroup, Tokens(label), label))

\* resolveVersionGroup without the token lookup
resolveVersionGroupWithoutLookup(version, tokenToGroup) == normalizeVersionLabel(version)

resolveVersionGroup(version, tokenToGroup) ==
    LET label == normalizeVersionLabel(version)
    IN  IF Includes(label, " or ") THEN label
        ELSE IF HasOwn(tokenToGroup, label) THEN Get(tokenToGroup, label)
        ELSE label

\* NextHadMerges without the test of merged[group]
NextHadMergesWithoutCollision(hadMerges, group, normalizedVersion, merged) ==
    hadMerges \/ group # normalizedVersion

\* hadMerges || group !== normalizedVersion || merged[group] !== undefined
NextHadMerges(hadMerges, group, normalizedVersion, merged) ==
    hadMerges \/ group # normalizedVersion \/ HasOwn(merged, group)

\* MergeEntries with merged[group] = value: a count is set where it should be added
RECURSIVE MergeEntriesOverwriting(_, _, _)
MergeEntriesOverwriting(entries, tokenToGroup, result) ==
    IF entries = <<>> THEN result
    ELSE LET version == Head(entries)[1]
             value == Head(entries)[2]
             normalizedVersion == normalizeVersionLabel(version)
             group == resolveVersionGroup(version, tokenToGroup)
         IN  IF version = "unknown" \/ value <= 0
             THEN MergeEntriesOverwriting(Tail(entries), tokenToGroup, result)
             ELSE MergeEntriesOverwriting(Tail(entries), tokenToGroup,
                    [merged |-> Put(result.merged, group, value),
                     hadMerges |-> NextHadMerges(result.hadMerges, group,
                                                 normalizedVersion, result.merged)])

\* Object.entries(stats).forEach: the counted labels accumulated into their groups
RECURSIVE MergeEntries(_, _, _)
MergeEntries(entries, tokenToGroup, result) ==
    IF entries = <<>> THEN result
    ELSE LET version == Head(entries)[1]
             value == Head(entries)[2]
             normalizedVersion == normalizeVersionLabel(version)
             group == resolveVersionGroup(version, tokenToGroup)
         IN  IF version = "unknown" \/ value <= 0
             THEN MergeEntries(Tail(entries), tokenToGroup, result)
             ELSE MergeEntries(Tail(entries), tokenToGroup,
                    [merged |-> Put(result.merged, group,
                                    (IF HasOwn(result.merged, group)
                                     THEN Get(result.merged, group) ELSE 0) + value),
                     hadMerges |-> NextHadMerges(result.hadMerges, group,
                                                 normalizedVersion, result.merged)])

\* mergeVersionStats(stats), the parameter written histogram here
mergeVersionStats(histogram) ==
    MergeEntries(histogram, BuildTokenToGroup(Keys(histogram), <<>>),
                 [merged |-> <<>>, hadMerges |-> FALSE])

\* the labels of the histograms given to mergeVersionStats
RawLabels == {"unknown", "3", "5", "10", "3_or_4_or_5", "3 or 4 or 5", "5_or_6"}

\* the labels of the histograms the charts are drawn from: raw and merged ones
VersionLabels == RawLabels \cup {normalizeVersionLabel(version) : version \in RawLabels}

\* normalizeVersionLabel on every label of the histograms
NormalizedLabels == [version \in VersionLabels |-> normalizeVersionLabel(version)]

\* version.match(/\d+/g) from position i on: the runs of decimal digits
RECURSIVE DigitRuns(_, _)
DigitRuns(s, i) ==
    IF i > Len(s) THEN <<>>
    ELSE IF DigitRun(s, i) = "" THEN DigitRuns(s, i + 1)
    ELSE <<DigitRun(s, i)>> \o DigitRuns(s, i + Len(DigitRun(s, i)))

parseVersionOrder(version) ==
    LET tokens == DigitRuns(version, 1)
        At(k) == IF k <= Len(tokens) THEN ToNumber(tokens[k]) ELSE 0
    IN  At(1) * 1000000 + At(2) * 1000 + At(3)

extractMajor(version) ==
    LET match == DigitRuns(version, 1)
    IN  IF match # <<>> THEN match[1] ELSE normalizeVersionLabel(version)

\* parseVersionOrder on every label of the histograms
VersionOrders == [version \in VersionLabels |-> parseVersionOrder(version)]

\* extractMajor on every label of the histograms
Majors == [version \in VersionLabels |-> extractMajor(version)]

\* countMajorVariants(stats), the parameter written histogram here
countMajorVariants(histogram) ==
    Cardinality({Majors[histogram[i][1]] :
                    i \in {j \in 1..Len(histogram) :
                            ~(histogram[j][1] = "unknown" \/ histogram[j][2] <= 0)}})

PACKAGE_MANAGER_COLORS ==
    [npm |-> "#ea2039", yarn_classic |-> "#2c8ebb", yarn_modern |-> "#2f2a68",
     pnpm |-> "#f9ad00", bun |-> "#f472b6", unknown |-> "#6b7280"]

\* data.sort((a, b) => b.order - a.order), which keeps the order of equal elements
RECURSIVE SortByOrder(_)
SortByOrder(data) ==
    IF data = <<>> THEN <<>>
    ELSE LET sorted == SortByOrder(SubSeq(data, 1, Len(data) - 1))
             datum == data[Len(data)]
             n == Cardinality({i \in 1..Len(sorted) : sorted[i].order >= datum.order})
         IN  SubSeq(sorted, 1, n) \o <<datum>> \o SubSeq(sorted, n + 1, Len(sorted))

\* buildVersionChartData(pm, stats), the parameter written histogram here
buildVersionChartData(pm, histogram) ==
    LET entries == SelectSeq(histogram, LAMBDA entry : entry[1] # "unknown")
        data == [i \in 1..Len(entries) |->
                    [label |-> NormalizedLabels[entries[i][1]],
                     rawLabel |-> entries[i][1],
                     value |-> entries[i][2],
                     color |-> PACKAGE_MANAGER_COLORS[pm],
                     order |-> VersionOrders[entries[i][1]]]]
        sorted == SortByOrder(SelectSeq(data, LAMBDA datum : datum.value > 0))
    IN  [i \in 1..Len(sorted) |->
            [label |-> sorted[i].label, rawLabel |-> sorted[i].rawLabel,
             value |-> sorted[i].value, color |-> sorted[i].color]]

\* chartData.reduce((sum, datum) => sum + datum.value, 0)
RECURSIVE Total(_)
Total(chartData) ==
    IF chartData = <<>> THEN 0 ELSE Head(chartData).value + Total(Tail(chartData))

\* the chart is skipped when only one major variant is left out
SkipsChartOffByOne(chartData, total, majorVariants) ==
    Len(chartData) = 0 \/ total = 0 \/ majorVariants < 1

\* !chartData.length || total === 0 || majorVariants <= 1
SkipsChart(chartData, total, majorVariants) ==
    Len(chartData) = 0 \/ total = 0 \/ majorVariants <= 1

\* a character that /[^a-z0-9_]/i does not match
IsSafeKeyChar(ch) ==
    \/ ch \in Digits
    \/ ch = "_"
    \/ IndexOf(LowerCaseLetters, ch) > 0
    \/ IndexOf(UpperCaseLetters, ch) > 0

\* pm.replace(/[^a-z0-9_]+/gi, '_'): every run of other characters becomes one underscore
RECURSIVE SafeKey(_, _)
SafeKey(pm, inRun) ==
    IF Len(pm) = 0 THEN ""
    ELSE IF IsSafeKeyChar(CharAt(pm, 1))
    THEN CharAt(pm, 1) \o SafeKey(SubSeq(pm, 2, Len(pm)), FALSE)
    ELSE (IF inRun THEN "" ELSE "_") \o SafeKey(SubSeq(pm, 2, Len(pm)), TRUE)

\* the two files writeChart is called with for the manager pm
ChartFiles(pm) ==
    {"package-manager-version-stats-" \o SafeKey(pm, FALSE) \o ".svg",
     "package-manager-version-stats-" \o SafeKey(pm, FALSE) \o "-dark.svg"}

MaxCount == 2

MaxEntries == 3

\* the histograms of at most MaxEntries labels, as objects
RawHistograms ==
    {h \in UNION {[1..n -> RawLabels \X (0..MaxCount)] : n \in 0..MaxEntries} :
        h = FromEntries(h, <<>>)}

\* the charts script has not been run
ChartsNotRun ==
    /\ rawVersionStats = <<>>
    /\ mergeResult = <<>>
    /\ charts = {}

----------------------------------------------------------------------------
(* fetchLanguagePages: the search result pages of one language *)

MAX_PAGES == 34

\* the total_count values the search may report
TotalCounts == {0, 1, 2, 31, 61, 1021}

\* how often the total_count of the search changes while the pages are fetched
MaxChanges == 1

\* let totalPages: number | undefined
NoTotalPages == [defined |-> FALSE, value |-> 0]

\* Math.min(Math.ceil(response.total_count / 30), MAX_PAGES)
TotalPages(total_count) ==
    [defined |-> TRUE,
     value |-> IF (total_count + 29) \div 30 < MAX_PAGES
               THEN (total_count + 29) \div 30 ELSE MAX_PAGES]

\* if (totalPages): undefined and 0 are falsy
Truthy(totalPages) == totalPages.defined /\ totalPages.value # 0

\* fetchLanguagePages(language) has been called
CallOf(language) ==
    [language |-> language, i |-> 0, totalPages |-> NoTotalPages, results |-> <<>>,
     requested |-> <<>>, pc |-> "loop"]

\* a call that has returned the one page of a search of one repository
ReturnedCall ==
    [language |-> "JavaScript", i |-> 0, totalPages |-> TotalPages(1),
     results |-> <<[total_count |-> 1]>>, requested |-> <<1>>, pc |-> "returned"]

\* the pages were fetched before the classification began
PagesFetched ==
    /\ languagePages = ReturnedCall
    /\ search = [total_count |-> 1, changes |-> 0]

\* fetchLanguagePages is called while the search reports one of TotalCounts
InitPages ==
    /\ languagePages \in {CallOf(language) : language \in {"JavaScript", "TypeScript"}}
    /\ search \in {[total_count |-> n, changes |-> 0] : n \in TotalCounts}

\* the head of the for loop up to the await: the loop ends, or page i + 1 is requested
RequestPage ==
    /\ languagePages.pc = "loop"
    /\ LET currentPage == languagePages.i + 1
       IN  languagePages' =
            IF ~(languagePages.i < MAX_PAGES) THEN [languagePages EXCEPT !.pc = "returned"]
            ELSE IF Truthy(languagePages.totalPages)
                    /\ currentPage > languagePages.totalPages.value
            THEN [languagePages EXCEPT !.pc = "returned"]
            ELSE [languagePages EXCEPT !.requested = Append(@, currentPage),
                                       !.pc = "awaiting"]
    /\ UNCHANGED search

\* fetchWithCache returns the page: from the await to the end of the loop body
PageArrives ==
    /\ languagePages.pc = "awaiting"
    /\ LET response == [total_count |-> search.total_count]
           results == Append(languagePages.results, response)
       IN  languagePages' =
            [languagePages EXCEPT
                !.results = results,
                !.totalPages = TotalPages(response.total_count),
                !.i = IF Len(results) = response.total_count THEN @ ELSE @ + 1,
                !.pc = IF Len(results) = response.total_count THEN "returned" ELSE "loop"]
    /\ UNCHANGED search

\* fetchWithCache or JSON.parse throws, and so does fetchLanguagePages
PageFails ==
    /\ languagePages.pc = "awaiting"
    /\ languagePages' = [languagePages EXCEPT !.pc = "threw"]
    /\ UNCHANGED search

\* repositories gain or lose stars: the search reports another total_count
SearchChanges ==
    /\ languagePages.pc \in {"loop", "awaiting"}
    /\ search.changes < MaxChanges
    /\ \E n \in TotalCounts \ {search.total_count} :
        search' = [total_count |-> n, changes |-> search.changes + 1]
    /\ UNCHANGED languagePages

----------------------------------------------------------------------------
(* The iteration: one callback per repository, suspended at its awaits *)

\* the call the callback of repository r makes when it stops at the await named at
Call(r, at, existsCache, bodyCache) ==
    IF at \in DOMAIN CheckPcs
    THEN checkIfFileExistsCall(existsCache, UrlInRepo(r, CheckPcs[at]))
    ELSE IF at \in DOMAIN FetchPcs
    THEN fetchWithCacheCall(bodyCache, UrlInRepo(r, FetchPcs[at]))
    ELSE NotAwaiting

\* the await each callback is suspended at when the iteration has called it, or not yet
FirstAwait(r) == IF DEBUG /\ r > 1 THEN "waiting" ELSE "checkPackageJson"

\* the values a run has when the iteration has made its first calls
RunStart ==
    [pc |-> [r \in Repos |-> FirstAwait(r)],
     checked |-> [r \in Repos |-> <<>>],
     fetched |-> [r \in Repos |-> EmptyObject],
     counted |-> [r \in Repos |-> "none"],
     thrown |-> [r \in Repos |-> "none"],
     stats |-> InitialStats(Len(flattenedResults)),
     packageManagerStats |-> InitialPackageManagerStats,
     packageManagerVersionStats |-> InitialPackageManagerVersionStats,
     awaiting |-> [r \in Repos |-> Call(r, FirstAwait(r), fileExistsStats, fetchCache)],
     phase |-> "classifying"]

\* a first run: no cache on disk, no result document
FirstRun(lists, trees) ==
    /\ DEBUG \in BOOLEAN
    /\ flattenedResults \in lists
    /\ remote \in [Repos -> trees]
    /\ fileExistsStats = EmptyObject
    /\ fetchCache = EmptyObject
    /\ resultFiles = EmptyObject
    /\ pc = RunStart.pc
    /\ checked = RunStart.checked
    /\ fetched = RunStart.fetched
    /\ counted = RunStart.counted
    /\ thrown = RunStart.thrown
    /\ stats = RunStart.stats
    /\ packageManagerStats = RunStart.packageManagerStats
    /\ packageManagerVersionStats = RunStart.packageManagerVersionStats
    /\ awaiting = RunStart.awaiting
    /\ phase = RunStart.phase

\* repositories whose files and availability may change at any time
Init == FirstRun(RepositoryLists, {"changing"}) /\ ChartsNotRun /\ PagesFetched

\* repositories whose cache keys collide, each with a tree that never changes
InitFixedTree == FirstRun(CollidingRepositoryLists, FixedTrees) /\ ChartsNotRun /\ PagesFetched

\* the callback of repository r runs from one await to the next, to its return or to a throw
Resume(r, e, existsCache, bodyCache) ==
    /\ pc' = [pc EXCEPT ![r] = e.next]
    /\ awaiting' = [awaiting EXCEPT ![r] = Call(r, e.next, existsCache, bodyCache)]
    /\ stats' = [f \in DOMAIN stats |-> IF f \in e.stats THEN stats[f] + 1 ELSE stats[f]]
    /\ packageManagerStats' =
            IF e.manager = "none" THEN packageManagerStats
            ELSE [packageManagerStats EXCEPT ![e.manager] = @ + 1]
    /\ packageManagerVersionStats' =
            IF e.versionOf = "none" THEN packageManagerVersionStats
            ELSE [packageManagerVersionStats EXCEPT ![e.versionOf] = Bump(@, e.label)]
    /\ counted' = [counted EXCEPT ![r] = IF e.manager = "none" THEN @ ELSE e.manager]
    /\ thrown' = [thrown EXCEPT ![r] = e.thrown]
    /\ phase' = IF e.thrown = "none" THEN phase ELSE "aborted"
    /\ UNCHANGED <<DEBUG, flattenedResults, resultFiles, remote, chartVars, pagesVars>>

\* an awaited checkIfFileExistsInRepo settles; found and absent are what the code does next
Check(r, at, found, absent) ==
    /\ phase = "classifying"
    /\ pc[r] = at
    /\ \E status \in Trees[remote[r]][CheckPcs[at]].head :
        LET e == checkIfFileExists(fileExistsStats, awaiting[r],
                                   UrlInRepo(r, CheckPcs[at]), status)
        IN  /\ fileExistsStats' = e.cache
            /\ checked' = [checked EXCEPT ![r] =
                    IF e.threw THEN @ ELSE Append(@, <<CheckPcs[at], e.result>>)]
            /\ Resume(r, IF e.threw THEN Throws({}, "none", NetworkError(e.status))
                         ELSE IF e.result THEN found ELSE absent,
                      e.cache, fetchCache)
    /\ UNCHANGED <<fetched, fetchCache>>

\* an awaited fetchWithCacheInRepo settles; effects[text] is what the code does next
Fetch(r, at, effects) ==
    /\ phase = "classifying"
    /\ pc[r] = at
    /\ \E response \in Trees[remote[r]][FetchPcs[at]].get :
        LET f == fetchWithCache(fetchCache, awaiting[r], UrlInRepo(r, FetchPcs[at]), response)
        IN  /\ fetchCache' = f.cache
            /\ fetched' = [fetched EXCEPT ![r] =
                    IF f.threw THEN @ ELSE (FetchPcs[at] :> f.text) @@ @]
            /\ Resume(r, IF f.threw THEN Throws({}, "none", NetworkError(f.status))
                         ELSE effects[f.text],
                      fileExistsStats, f.cache)
    /\ UNCHANGED <<checked, fileExistsStats>>

\* asyncForEachStrict calls the callback of the next repository
Start(r) ==
    /\ phase = "classifying"
    /\ DEBUG
    /\ pc[r] = "waiting"
    /\ r > 1
    /\ pc[r - 1] = "done"
    /\ pc' = [pc EXCEPT ![r] = "checkPackageJson"]
    /\ awaiting' = [awaiting EXCEPT ![r] =
            Call(r, "checkPackageJson", fileExistsStats, fetchCache)]
    /\ UNCHANGED <<DEBUG, flattenedResults, checked, fetched, counted, thrown, stats,
                   packageManagerStats, packageManagerVersionStats, fileExistsStats,
                   fetchCache, phase, resultFiles, remote, chartVars, pagesVars>>

\* NonNodejs with the repository also counted under unknown
NonNodejsCountedUnknown == DetectedWithoutVersion({"non_nodejs"}, "unknown")

\* the code that runs once package.json is known to be absent
NonNodejs == GoOn("done", {"non_nodejs"})

CheckPackageJson(r) ==
    Check(r, "checkPackageJson", GoOn("fetchPackageJson", {"nodejs"}), NonNodejs)

FetchPackageJson(r) == Fetch(r, "fetchPackageJson", PackageJsonEffects)

\* the code that runs once package-lock.json is known to exist, up to the fetch
PackageLockJsonFound ==
    Effect("fetchPackageLockJson", {"has_lockfile"}, "npm", "none", "none", "none")

CheckPackageLockJson(r) ==
    Check(r, "checkPackageLockJson", PackageLockJsonFound, GoOn("checkNpmShrinkwrapJson", {}))

FetchPackageLockJson(r) == Fetch(r, "fetchPackageLockJson", PackageLockJsonEffects)

\* NpmShrinkwrapJsonFound without its return
NpmShrinkwrapJsonFoundNoReturn ==
    Effect("checkYarnLock", {"has_lockfile"}, "npm", "npm", "unknown", "none")

\* the code that runs once npm-shrinkwrap.json is known to exist
NpmShrinkwrapJsonFound == Detected({"has_lockfile"}, "npm", "unknown")

CheckNpmShrinkwrapJson(r) ==
    Check(r, "checkNpmShrinkwrapJson", NpmShrinkwrapJsonFound, GoOn("checkYarnLock", {}))

CheckYarnLock(r) ==
    Check(r, "checkYarnLock", GoOn("fetchYarnLock", {"has_lockfile"}),
          GoOn("checkPnpmLockYaml", {}))

FetchYarnLock(r) == Fetch(r, "fetchYarnLock", YarnLockEffects)

\* PnpmLockYamlFound without the increment of stats.has_lockfile
PnpmLockYamlFoundNotALockfile ==
    Effect("fetchPnpmLockYaml", {}, "pnpm", "none", "none", "none")

\* the code that runs once pnpm-lock.yaml is known to exist, up to the fetch
PnpmLockYamlFound ==
    Effect("fetchPnpmLockYaml", {"has_lockfile"}, "pnpm", "none", "none", "none")

CheckPnpmLockYaml(r) ==
    Check(r, "checkPnpmLockYaml", PnpmLockYamlFound, GoOn("checkBunLockb", {}))

FetchPnpmLockYaml(r) == Fetch(r, "fetchPnpmLockYaml", PnpmLockYamlEffects)

\* BunLockFound with the version counted under unknown, as for the other lockfiles
BunLockFoundUnknown == Detected({"has_lockfile"}, "bun", "unknown")

\* the code that runs once bun.lockb or bun.lock is known to exist
BunLockFound == Detected({"has_lockfile"}, "bun", "1")

CheckBunLockb(r) == Check(r, "checkBunLockb", BunLockFound, GoOn("checkBunLock", {}))

CheckBunLock(r) ==
    Check(r, "checkBunLock", BunLockFound, NoLockfileEffects[fetched[r]["package.json"]])

CheckContributingMd(r) ==
    Check(r, "checkContributingMd", GoOn("fetchContributingMd", {}), GoOn("checkCiYml", {}))

FetchContributingMd(r) == Fetch(r, "fetchContributingMd", ContributingMdEffects)

CheckCiYml(r) == Check(r, "checkCiYml", GoOn("fetchCiYml", {}), NothingDetected)

FetchCiYml(r) == Fetch(r, "fetchCiYml", CiYmlEffects)

ResultDocuments == {"stats", "package-manager-stats", "package-manager-version-stats"}

\* the content of the three documents when they are written
ResultContents ==
    ("stats" :> stats) @@ ("package-manager-stats" :> packageManagerStats)
        @@ ("package-manager-version-stats" :> packageManagerVersionStats)

\* WriteResults run also after a callback threw
WriteResultsAfterThrow ==
    /\ phase \in {"classifying", "aborted"}
    /\ \A r \in Repos : pc[r] \in {"done", "threw"}
    /\ resultFiles' = ResultContents
    /\ phase' = "written"
    /\ UNCHANGED <<DEBUG, flattenedResults, pc, checked, fetched, counted, thrown, stats,
                   packageManagerStats, packageManagerVersionStats, fileExistsStats,
                   fetchCache, remote, awaiting, chartVars, pagesVars>>

\* the three writeFileSync calls after the iteration
WriteResults ==
    /\ phase = "classifying"
    /\ \A r \in Repos : pc[r] = "done"
    /\ resultFiles' = ResultContents
    /\ phase' = "written"
    /\ UNCHANGED <<DEBUG, flattenedResults, pc, checked, fetched, counted, thrown, stats,
                   packageManagerStats, packageManagerVersionStats, fileExistsStats,
                   fetchCache, remote, awaiting, chartVars, pagesVars>>

\* the script is run again: the caches and the result documents on disk are those left
\* by the runs before, everything else is built anew
Restart ==
    /\ phase \in {"written", "aborted"}
    /\ pc' = RunStart.pc
    /\ checked' = RunStart.checked
    /\ fetched' = RunStart.fetched
    /\ counted' = RunStart.counted
    /\ thrown' = RunStart.thrown
    /\ stats' = RunStart.stats
    /\ packageManagerStats' = RunStart.packageManagerStats
    /\ packageManagerVersionStats' = RunStart.packageManagerVersionStats
    /\ awaiting' = RunStart.awaiting
    /\ phase' = RunStart.phase
    /\ UNCHANGED <<DEBUG, flattenedResults, fileExistsStats, fetchCache, resultFiles, remote,
                   chartVars, pagesVars>>

Next ==
    \/ \E r \in Repos : Start(r)
    \/ \E r \in Repos : CheckPackageJson(r)
    \/ \E r \in Repos : FetchPackageJson(r)
    \/ \E r \in Repos : CheckPackageLockJson(r)
    \/ \E r \in Repos : FetchPackageLockJson(r)
    \/ \E r \in Repos : CheckNpmShrinkwrapJson(r)
    \/ \E r \in Repos : CheckYarnLock(r)
    \/ \E r \in Repos : FetchYarnLock(r)
    \/ \E r \in Repos : CheckPnpmLockYaml(r)
    \/ \E r \in Repos : FetchPnpmLockYaml(r)
    \/ \E r \in Repos : CheckBunLockb(r)
    \/ \E r \in Repos : CheckBunLock(r)
    \/ \E r \in Repos : CheckContributingMd(r)
    \/ \E r \in Repos : FetchContributingMd(r)
    \/ \E r \in Repos : CheckCiYml(r)
    \/ \E r \in Repos : FetchCiYml(r)
    \/ WriteResults

Spec == Init /\ [][Next]_vars

\* one run over trees that never change
FixedTreeSpec == InitFixedTree /\ [][Next]_vars

NextOrRestart ==
    \/ Next
    \/ Restart

\* any number of runs over trees that never change
RerunSpec == InitFixedTree /\ [][NextOrRestart]_vars

\* the classification as it is before its first run, which the charts script leaves alone
classificationVars ==
    <<DEBUG, flattenedResults, pc, checked, fetched, counted, thrown, stats,
      packageManagerStats, packageManagerVersionStats, fileExistsStats,
      fetchCache, phase, resultFiles, remote, awaiting>>

\* the charts script is given a version histogram
InitCharts ==
    /\ rawVersionStats \in RawHistograms
    /\ mergeResult = <<>>
    /\ charts = {}
    /\ FirstRun(RepositoryLists, {"changing"})
    /\ DEBUG
    /\ PagesFetched

\* the callback of versionEntries.forEach for one manager pm and its histogram
MergeVersionStats ==
    /\ mergeResult = <<>>
    /\ \E result \in {mergeVersionStats(rawVersionStats)} :
        \E majorVariants \in {countMajorVariants(result.merged)},
           pm \in VersionedPackageManagers :
            \E chartData \in {buildVersionChartData(pm, result.merged)} :
                /\ mergeResult' = <<result>>
                /\ charts' = IF SkipsChart(chartData, Total(chartData), majorVariants)
                             THEN charts
                             ELSE charts \cup ChartFiles(pm)
    /\ UNCHANGED <<rawVersionStats, classificationVars, pagesVars>>

NextCharts == MergeVersionStats

\* the charts script on one version histogram
ChartSpec == InitCharts /\ [][NextCharts]_vars

\* fetchLanguagePages runs before the classification and the charts
InitLanguagePages ==
    /\ InitPages
    /\ FirstRun(RepositoryLists, {"changing"})
    /\ DEBUG
    /\ ChartsNotRun

NextPages ==
    \/ RequestPage /\ UNCHANGED <<classificationVars, chartVars>>
    \/ PageArrives /\ UNCHANGED <<classificationVars, chartVars>>
    \/ PageFails /\ UNCHANGED <<classificationVars, chartVars>>
    \/ SearchChanges /\ UNCHANGED <<classificationVars, chartVars>>

\* one call of fetchLanguagePages
PagesSpec == InitLanguagePages /\ [][NextPages]_vars

----------------------------------------------------------------------------
(* Steps of one callback, as the properties below name them *)

\* checkIfFileExistsInRepo(path) of repository r returns answer in this step
Answered(r, path, answer) == checked'[r] = Append(checked[r], <<path, answer>>)

\* fetchWithCacheInRepo(path) of repository r returns text in this step
Arrived(r, path, text) ==
    /\ path \notin DOMAIN fetched[r]
    /\ path \in DOMAIN fetched'[r]
    /\ fetched'[r][path] = text

\* no packageManagerStats counter and no version histogram changes in this step
ManagersUnchanged == UNCHANGED <<packageManagerStats, packageManagerVersionStats>>

\* this step counts one repository under manager, with the version label
CountsWithVersion(manager, label) ==
    /\ packageManagerStats' = [packageManagerStats EXCEPT ![manager] = @ + 1]
    /\ packageManagerVersionStats' =
            [packageManagerVersionStats EXCEPT ![manager] = Bump(@, label)]

\* this step counts one repository under manager and changes no version histogram
CountsWithoutVersion(manager) ==
    /\ packageManagerStats' = [packageManagerStats EXCEPT ![manager] = @ + 1]
    /\ UNCHANGED packageManagerVersionStats

\* this step records one version label for manager and changes no manager counter
RecordsVersion(manager, label) ==
    /\ UNCHANGED packageManagerStats
    /\ packageManagerVersionStats' =
            [packageManagerVersionStats EXCEPT ![manager] = Bump(@, label)]

\* the text of package.json that repository r has received, "" before it arrives
RawPackageJson(r) ==
    IF "package.json" \in DOMAIN fetched[r] THEN fetched[r]["package.json"] ELSE ""

----------------------------------------------------------------------------
(* C1 *)

PnpmDeclarations == ("pnpm@8.6.0" :> "8") @@ ("pnpm@9.1.0" :> "9")

\* C1: when the package.json of a repository parses and its packageManager is
\* pnpm@<major>.x, the step that reads it increments packageManagerStats.pnpm and
\* packageManagerVersionStats.pnpm[<major>] by one and no other manager counter.
C1_PnpmDeclarationCountsPnpm ==
    [][\A r \in Repos : \A v \in DOMAIN PnpmDeclarations :
        Arrived(r, "package.json", PkgWithManager(v))
            => CountsWithVersion("pnpm", PnpmDeclarations[v])]_vars

----------------------------------------------------------------------------
(* C2 *)

\* declarations that match none of /npm/, /yarn@1/, /yarn@[2-9]/, /pnpm/, /bun/
\* or that carry no @<digits>
UnrecognizedDeclarations == {"deno@2.0.0", "yarn", "yarn@v4.0.0"}

\* the callback of r threw on its packageManager: nothing counted, no marker probed
AbortedOnDeclaration(r) ==
    /\ pc[r] = "threw"
    /\ phase = "aborted"
    /\ counted[r] = "none"
    /\ Len(checked[r]) = 1
    /\ DOMAIN resultFiles = {}

\* C2 as stated: a packageManager field that matches none of the five patterns or
\* carries no version token, the empty value included, aborts the classification.
C2_AnyUnrecognizedDeclarationAborts ==
    \A r \in Repos : \A v \in UnrecognizedDeclarations \cup {""} :
        RawPackageJson(r) = PkgWithManager(v) => AbortedOnDeclaration(r)

\* C2 amended: a non-empty packageManager value that matches none of the five
\* patterns or carries no @<digits> token aborts the classification with an error:
\* the repository is counted under no manager, unknown included, and no marker
\* file is probed; the step that reads the field changes no manager counter.
C2_UnrecognizedDeclarationAborts ==
    /\ [](\A r \in Repos : \A v \in UnrecognizedDeclarations :
            RawPackageJson(r) = PkgWithManager(v) => AbortedOnDeclaration(r))
    /\ [][\A r \in Repos : \A v \in UnrecognizedDeclarations :
            Arrived(r, "package.json", PkgWithManager(v)) => ManagersUnchanged]_vars

C2_Witness ==
    \E r \in Repos :
        /\ RawPackageJson(r) = PkgWithManager("deno@2.0.0")
        /\ thrown[r] = "packageManager not recognized"

----------------------------------------------------------------------------
(* C3 *)

\* the manager and label the yarn declarations stand for: major 1 is Classic,
\* every major from 2 on is Modern
YarnDeclarations ==
    ("yarn@1.22.19" :> <<"yarn_classic", "1">>) @@ ("yarn@3.6.0" :> <<"yarn_modern", "3">>)
        @@ ("yarn@10.0.0" :> <<"yarn_modern", "10">>)
        @@ ("yarn@v4.0.0" :> <<"yarn_modern", "4">>)

\* C3: a packageManager naming yarn with a version token is counted as yarn_classic
\* for major 1 and as yarn_modern for every major >= 2 (10 and the @v form
\* included), with the major as the version label.
C3_YarnDeclarationByMajor ==
    [][\A r \in Repos : \A v \in DOMAIN YarnDeclarations :
        Arrived(r, "package.json", PkgWithManager(v))
            => CountsWithVersion(YarnDeclarations[v][1], YarnDeclarations[v][2])]_vars

----------------------------------------------------------------------------
(* C4 *)

\* C4: when the existence probe of package.json answers absent, that step increments
\* stats.non_nodejs by one and changes no other counter, and the callback has
\* returned: it issues no further probe and fetches nothing.
C4_NoPackageJsonIsNonNodejs ==
    /\ [][\A r \in Repos : Answered(r, "package.json", FALSE) =>
            /\ stats' = [stats EXCEPT !.non_nodejs = @ + 1]
            /\ ManagersUnchanged]_vars
    /\ [](\A r \in Repos :
            (checked[r] # <<>> /\ checked[r][1] = <<"package.json", FALSE>>) =>
                /\ pc[r] = "done"
                /\ Len(checked[r]) = 1
                /\ fetched[r] = EmptyObject
                /\ counted[r] = "none")

C4_Witness ==
    \E r \in Repos :
        /\ checked[r] = <<<<"package.json", FALSE>>>>
        /\ stats.non_nodejs = 1
        /\ phase = "written"

----------------------------------------------------------------------------
(* C5 *)

\* the paths in the order the cascade probes them
ProbeOrder ==
    <<"package.json", "package-lock.json", "npm-shrinkwrap.json", "yarn.lock",
      "pnpm-lock.yaml", "bun.lockb", "bun.lock", "CONTRIBUTING.md",
      ".github/workflows/ci.yml">>

\* the managers each marker file stands for
MarkerManagers ==
    ("package-lock.json" :> {"npm"}) @@ ("npm-shrinkwrap.json" :> {"npm"})
        @@ ("yarn.lock" :> {"yarn_classic", "yarn_modern"}) @@ ("pnpm-lock.yaml" :> {"pnpm"})
        @@ ("bun.lockb" :> {"bun"}) @@ ("bun.lock" :> {"bun"})

\* the paths of the existence probes r has issued: those answered, then the pending one
ProbesIssued(r) ==
    [i \in 1..Len(checked[r]) |-> checked[r][i][1]]
        \o (IF pc[r] \in DOMAIN CheckPcs THEN <<CheckPcs[pc[r]]>> ELSE <<>>)

\* C5: the existence probes of a repository are issued in the fixed order
\* package.json, package-lock.json, npm-shrinkwrap.json, yarn.lock, pnpm-lock.yaml,
\* bun.lockb, bun.lock, CONTRIBUTING.md, ci.yml; a marker that is found is the last
\* path probed, and a repository that is counted after it is counted under a
\* manager of that marker.
C5_MarkersProbedInOrderFirstFoundWins ==
    \A r \in Repos :
        /\ Len(ProbesIssued(r)) <= Len(ProbeOrder)
        /\ ProbesIssued(r) = SubSeq(ProbeOrder, 1, Len(ProbesIssued(r)))
        /\ \A i \in 1..Len(checked[r]) :
            (checked[r][i][1] \in DOMAIN MarkerManagers /\ checked[r][i][2]) =>
                /\ i = Len(ProbesIssued(r))
                /\ counted[r] \in MarkerManagers[checked[r][i][1]] \cup {"none"}
                /\ pc[r] = "done" => counted[r] \in MarkerManagers[checked[r][i][1]]

C5_Witness ==
    \E r \in Repos :
        /\ Len(checked[r]) = 5
        /\ checked[r][5] = <<"pnpm-lock.yaml", TRUE>>
        /\ pc[r] = "done"
        /\ counted[r] = "pnpm"

----------------------------------------------------------------------------
(* C6 *)

\* the lockfileVersion each package-lock.json that parses carries, "" when it has none
LockfileVersionOf ==
    [t \in PackageLockTexts \ {LockNotJson} |->
        IF t = LockWithoutVersion THEN ""
        ELSE IF t = LockTruncated("2") THEN "2"
        ELSE CHOOSE n \in LockfileVersions : t = LockWithVersion(n)]

NpmLabelsAsStated ==
    ("1" :> "5 or 6") @@ ("2" :> "7 or 8") @@ ("3" :> "9 or 10 or 11")
        @@ ("4" :> "unknown") @@ ("" :> "unknown")

NpmLabelsRecorded ==
    ("1" :> "5_or_6") @@ ("2" :> "7_or_8") @@ ("3" :> "9_or_10_or_11")
        @@ ("4" :> "unknown") @@ ("" :> "unknown")

----------------------------------------------------------------------------
(* C7 *)

\* the label each yarn.lock without the v1 header stands for
YarnModernLabels ==
    [t \in {YarnModern(v) : v \in YarnMetadataVersions}
            \cup {YarnModernNoVersion, YarnNoMetadata, YarnEmpty} |->
        IF t \in {YarnModern("4"), YarnModern("5"), YarnModern("6")} THEN "3"
        ELSE IF t = YarnModern("8") THEN "4"
        ELSE "unknown"]

\* C7: a yarn.lock without the "# yarn lockfile v1" header is counted as yarn_modern
\* with one label, "3" for metadata version 4, 5 or 6, "4" for 8 and "unknown"
\* otherwise, also without a __metadata block or when empty, and the callback
\* returns without an error.
C7_YarnModernNeverAborts ==
    [][\A r \in Repos : \A t \in DOMAIN YarnModernLabels :
        Arrived(r, "yarn.lock", t) =>
            /\ CountsWithVersion("yarn_modern", YarnModernLabels[t])
            /\ pc'[r] = "done"
            /\ phase' = "classifying"]_vars

----------------------------------------------------------------------------
(* C8 *)

\* the label each pnpm-lock.yaml stands for: the table value of the lockfileVersion
\* written on its first line, "unknown" without one
PnpmLabels ==
    [t \in PnpmLockTexts |->
        IF t = PnpmLock("'9.0'") THEN "9_or_10"
        ELSE IF t \in {PnpmLock("'6.0'"), PnpmLock("6.0")} THEN "8"
        ELSE IF t = PnpmLock("5.4") THEN "7"
        ELSE IF t = PnpmLock("5.1") THEN "3_or_4_or_5"
        ELSE "unknown"]

\* C8: a pnpm-lock.yaml reached by the cascade is counted as pnpm; once its text
\* has arrived exactly one label is recorded in the pnpm histogram, the table value
\* of the lockfileVersion of the first line or "unknown", also when the first line
\* is empty, and the callback returns without an error.
C8_PnpmNeverAborts ==
    [][\A r \in Repos : \A t \in DOMAIN PnpmLabels :
        Arrived(r, "pnpm-lock.yaml", t) =>
            /\ RecordsVersion("pnpm", PnpmLabels[t])
            /\ counted'[r] = "pnpm"
            /\ pc'[r] = "done"
            /\ phase' = "classifying"]_vars

----------------------------------------------------------------------------
(* C9 *)

YarnClassicTexts == {YarnClassic, YarnClassicUpperCase, YarnClassicWithMetadata}

----------------------------------------------------------------------------
(* C10 *)

PnpmOnlyPackageJson ==
    {PkgWithScript("pnpm run lint"), PkgWithScript("pnpm install"), PkgWithScript("pnpm test")}

PnpmOnlyProse == {"Run pnpm install first.", "Then pnpm run build.", "Check with pnpm test."}

\* C10: in each text fallback step (raw package.json, CONTRIBUTING.md, ci.yml) a text
\* whose only package-manager idiom is pnpm install, pnpm run or pnpm test, without
\* a yarn mention, counts the repository as pnpm.
C10_PnpmIdiomCountsPnpm ==
    [][\A r \in Repos :
        /\ (Answered(r, "bun.lock", FALSE) /\ RawPackageJson(r) \in PnpmOnlyPackageJson)
                => CountsWithoutVersion("pnpm")
        /\ \A t \in PnpmOnlyProse :
            (Arrived(r, "CONTRIBUTING.md", t) \/ Arrived(r, ".github/workflows/ci.yml", t))
                => CountsWithoutVersion("pnpm")]_vars

----------------------------------------------------------------------------
(* C11 *)

\* C11: with a package.json, no packageManager field and no marker file, a raw
\* package.json that mentions yarn without the npm idiom (a script "yarn build")
\* ends the classification at the package.json step: unknown is incremented once
\* and CONTRIBUTING.md and ci.yml are not probed.
C11_YarnMentionEndsAtPackageJson ==
    [][\A r \in Repos :
        (Answered(r, "bun.lock", FALSE) /\ RawPackageJson(r) = PkgWithScript("yarn build"))
            => /\ CountsWithoutVersion("unknown")
               /\ pc'[r] = "done"]_vars

----------------------------------------------------------------------------
(* C12 *)

\* C12: no probe answered with status 404 aborts the classification: a 404 on an
\* existence check and a 404 on a body fetch are both absence, no error is thrown.
C12_NotFoundNeverAborts ==
    \A r \in Repos : thrown[r] # NetworkError(404)

----------------------------------------------------------------------------
(* C13 *)

\* C13: when the callback of any repository has thrown, none of the three result
\* documents is written in that run; the documents are written, all three, only
\* when the callback of every repository has returned. In both iteration modes.
C13_ResultsOnlyAfterEveryClassification ==
    /\ DOMAIN resultFiles \in {{}, ResultDocuments}
    /\ (\E r \in Repos : pc[r] = "threw") => DOMAIN resultFiles = {}
    /\ DOMAIN resultFiles # {} => \A r \in Repos : pc[r] = "done"

C13_Witness ==
    \E r, q \in Repos :
        /\ ~DEBUG
        /\ pc[r] = "threw"
        /\ pc[q] = "done"
        /\ counted[q] # "none"
        /\ phase = "aborted"
        /\ DOMAIN resultFiles = {}

----------------------------------------------------------------------------
(* C14 *)

\* C14: without DEBUG the repositories are classified one at a time: a repository
\* has no probe pending or answered before the callback of the repository before
\* it in the list has returned.
C14_DefaultModeIsSequential ==
    ~DEBUG =>
        \A r \in Repos \ {1} :
            pc[r - 1] # "done" => (checked[r] = <<>> /\ awaiting[r] = NotAwaiting)

----------------------------------------------------------------------------
(* C15 *)

\* what the callback does after the existence check awaited at at has returned found
AfterCheck(at, found, rawPackageJson) ==
    CASE at = "checkPackageJson" ->
            IF found THEN GoOn("fetchPackageJson", {"nodejs"}) ELSE NonNodejs
      [] at = "checkPackageLockJson" ->
            IF found THEN PackageLockJsonFound ELSE GoOn("checkNpmShrinkwrapJson", {})
      [] at = "checkNpmShrinkwrapJson" ->
            IF found THEN NpmShrinkwrapJsonFound ELSE GoOn("checkYarnLock", {})
      [] at = "checkYarnLock" ->
            IF found THEN GoOn("fetchYarnLock", {"has_lockfile"})
            ELSE GoOn("checkPnpmLockYaml", {})
      [] at = "checkPnpmLockYaml" ->
            IF found THEN PnpmLockYamlFound ELSE GoOn("checkBunLockb", {})
      [] at = "checkBunLockb" -> IF found THEN BunLockFound ELSE GoOn("checkBunLock", {})
      [] at = "checkBunLock" ->
            IF found THEN BunLockFound ELSE NoLockfileEffects[rawPackageJson]
      [] at = "checkContributingMd" ->
            IF found THEN GoOn("fetchContributingMd", {}) ELSE GoOn("checkCiYml", {})
      [] at = "checkCiYml" -> IF found THEN GoOn("fetchCiYml", {}) ELSE NothingDetected

\* what the callback does after the fetch awaited at at has returned text
AfterFetch(at, text) ==
    CASE at = "fetchPackageJson" -> PackageJsonEffects[text]
      [] at = "fetchPackageLockJson" -> PackageLockJsonEffects[text]
      [] at = "fetchYarnLock" -> YarnLockEffects[text]
      [] at = "fetchPnpmLockYaml" -> PnpmLockYamlEffects[text]
      [] at = "fetchContributingMd" -> ContributingMdEffects[text]
      [] at = "fetchCiYml" -> CiYmlEffects[text]

\* the counters and caches before a sequential pass over the list
BeforeSequentialPass ==
    [stats |-> InitialStats(Len(flattenedResults)),
     packageManagerStats |-> InitialPackageManagerStats,
     packageManagerVersionStats |-> InitialPackageManagerVersionStats,
     fileExistsStats |-> EmptyObject, fetchCache |-> EmptyObject,
     rawPackageJson |-> "", threw |-> FALSE]

\* the increments of e applied to the counters of a
Increment(a, e) ==
    [a EXCEPT
        !.stats = [f \in DOMAIN @ |-> IF f \in e.stats THEN @[f] + 1 ELSE @[f]],
        !.packageManagerStats =
            IF e.manager = "none" THEN @ ELSE [@ EXCEPT ![e.manager] = @ + 1],
        !.packageManagerVersionStats =
            IF e.versionOf = "none" THEN @ ELSE [@ EXCEPT ![e.versionOf] = Bump(@, e.label)],
        !.threw = (e.thrown # "none")]

(* The repositories r, r + 1, ... classified one after the other over their   *)
(* trees, each callback run from its await at to its return before the next   *)
(* one is called; a is what the pass has accumulated so far.                   *)
RECURSIVE SequentialPass(_, _, _)
SequentialPass(r, at, a) ==
    IF at = "threw" THEN a
    ELSE IF at = "done"
    THEN IF r = Len(flattenedResults) THEN a
         ELSE SequentialPass(r + 1, "checkPackageJson", a)
    ELSE IF at \in DOMAIN CheckPcs
    THEN LET url == UrlInRepo(r, CheckPcs[at])
             status == CHOOSE x \in Trees[remote[r]][CheckPcs[at]].head : TRUE
             c == checkIfFileExists(a.fileExistsStats,
                                    checkIfFileExistsCall(a.fileExistsStats, url), url, status)
             e == IF c.threw THEN Throws({}, "none", NetworkError(c.status))
                  ELSE AfterCheck(at, c.result, a.rawPackageJson)
         IN  SequentialPass(r, e.next, Increment([a EXCEPT !.fileExistsStats = c.cache], e))
    ELSE LET url == UrlInRepo(r, FetchPcs[at])
             response == CHOOSE x \in Trees[remote[r]][FetchPcs[at]].get : TRUE
             f == fetchWithCache(a.fetchCache, fetchWithCacheCall(a.fetchCache, url),
                                 url, response)
             e == IF f.threw THEN Throws({}, "none", NetworkError(f.status))
                  ELSE AfterFetch(at, f.text)
         IN  SequentialPass(r, e.next,
                Increment([a EXCEPT !.fetchCache = f.cache,
                                    !.rawPackageJson =
                                        IF at = "fetchPackageJson" THEN f.text ELSE @], e))

SequentialResult == SequentialPass(1, "checkPackageJson", BeforeSequentialPass)

CountersEqualSequentialResult ==
    /\ stats = SequentialResult.stats
    /\ packageManagerStats = SequentialResult.packageManagerStats
    /\ packageManagerVersionStats = SequentialResult.packageManagerVersionStats

\* C15: under every interleaving of the callbacks at their awaits, once every
\* callback has returned, stats, packageManagerStats and packageManagerVersionStats
\* equal the values of classifying the same repositories one after the other in
\* list order.
C15_InterleavedEqualsSequential ==
    phase = "written" => CountersEqualSequentialResult

\* the same, for the iteration of DEBUG mode only
C15_StrictIterationEqualsSequential ==
    (DEBUG /\ phase = "written") => CountersEqualSequentialResult

----------------------------------------------------------------------------
(* C16 *)

\* C16: over trees that never change, a run that starts with the caches left by
\* earlier runs makes the same counter increments as the run that started with
\* empty caches: the documents it writes equal the documents already on disk.
C16_WarmRunCountsAsColdRun ==
    [][(phase = "classifying" /\ phase' = "written" /\ DOMAIN resultFiles # {})
            => resultFiles' = resultFiles]_vars

----------------------------------------------------------------------------
(* C17 *)

\* C17: the body cache is keyed by the request URL: fetchWithCache never returns
\* for one URL the body stored for another, so every text it returns for a URL,
\* from the network or from the cache, is the body served at that URL.
C17_FetchReturnsTheBodyOfItsUrl ==
    \A r \in Repos : \A path \in DOMAIN fetched[r] :
        Ok(fetched[r][path]) \in Trees[remote[r]][path].get

----------------------------------------------------------------------------
(* C18 *)

\* the existence check of repository r that is pending returns in this step
CheckReturns(r) ==
    /\ pc[r] \in DOMAIN CheckPcs
    /\ Len(checked'[r]) = Len(checked[r]) + 1

\* the existence check of repository r that is pending throws in this step
CheckThrows(r) ==
    /\ pc[r] \in DOMAIN CheckPcs
    /\ pc'[r] = "threw"

PendingCheckUrl(r) == UrlInRepo(r, CheckPcs[pc[r]])

\* C18: a URL recorded in fileExistsStats keeps its entry and its boolean for good,
\* and every later check of that URL returns the recorded boolean read at the
\* call, without a HEAD request. A check that is not recorded yet records true
\* after status 200 and false after 404; after any other status it throws and
\* records nothing.
C18_ExistenceIsRecordedOnceAndForAll ==
    /\ [][\A url \in DOMAIN fileExistsStats :
            /\ url \in DOMAIN fileExistsStats'
            /\ fileExistsStats'[url] = fileExistsStats[url]]_vars
    /\ [][\A r \in Repos :
            (CheckReturns(r) /\ PendingCheckUrl(r) \in DOMAIN fileExistsStats) =>
                /\ awaiting[r] = FromFileExistsStats(fileExistsStats[PendingCheckUrl(r)])
                /\ checked'[r][Len(checked'[r])][2] = fileExistsStats[PendingCheckUrl(r)]
                /\ UNCHANGED fileExistsStats]_vars
    /\ [][\A r \in Repos :
            (CheckReturns(r) /\ PendingCheckUrl(r) \notin DOMAIN fileExistsStats) =>
                /\ awaiting[r] = FromNetwork
                /\ checked'[r][Len(checked'[r])][2]
                        = (Trees[remote[r]][CheckPcs[pc[r]]].head = {200})
                /\ fileExistsStats' =
                        (PendingCheckUrl(r) :> checked'[r][Len(checked'[r])][2])
                            @@ fileExistsStats]_vars
    /\ [][\A r \in Repos :
            /\ CheckThrows(r) =>
                /\ Trees[remote[r]][CheckPcs[pc[r]]].head = {500}
                /\ thrown'[r] = NetworkError(500)
                /\ UNCHANGED fileExistsStats
            /\ (pc[r] \in DOMAIN CheckPcs /\ pc'[r] # pc[r]
                    /\ Trees[remote[r]][CheckPcs[pc[r]]].head = {500}
                    /\ PendingCheckUrl(r) \notin DOMAIN fileExistsStats)
                => CheckThrows(r)]_vars

\* a later run has had a check answered from the record of an earlier run
C18_Witness ==
    \E r \in Repos :
        /\ DOMAIN resultFiles # {}
        /\ phase = "classifying"
        /\ Len(checked[r]) = 2
        /\ checked[r][2] = <<"package-lock.json", FALSE>>
        /\ fileExistsStats[UrlInRepo(r, "package-lock.json")] = FALSE

----------------------------------------------------------------------------
(* C19 *)

\* a label that names several versions
Ambiguous(label) == Includes(label, " or ")

\* token is one of the versions the ambiguous label names
IsTokenOf(token, label) ==
    /\ Len(token) + 4 <= Len(label)
    /\ \/ SubSeq(label, 1, Len(token) + 4) = token \o " or "
       \/ SubSeq(label, Len(label) - Len(token) - 3, Len(label)) = " or " \o token
       \/ Includes(label, " or " \o token \o " or ")

\* the text of the i-th label of histogram h with its underscores as spaces
LabelText(h, i) == normalizeVersionLabel(h[i][1])

\* the ambiguous labels of h that name the i-th label as one of their versions
GroupsNaming(h, i) ==
    {j \in 1..Len(h) : Ambiguous(LabelText(h, j)) /\ IsTokenOf(LabelText(h, i), LabelText(h, j))}

(* The group of the i-th label of h: itself when it is ambiguous or no        *)
(* ambiguous label of h names it, otherwise the ambiguous label that names    *)
(* it, the first one in the order of enumeration when there are several.      *)
GroupOf(h, i) ==
    IF Ambiguous(LabelText(h, i)) \/ GroupsNaming(h, i) = {}
    THEN LabelText(h, i)
    ELSE LabelText(h, CHOOSE j \in GroupsNaming(h, i) : \A k \in GroupsNaming(h, i) : j <= k)

\* the labels of h that count: a positive count, not "unknown"
CountedLabels(h) == {i \in 1..Len(h) : h[i][1] # "unknown" /\ h[i][2] > 0}

\* the sum of the counts of the labels of h at the positions in S
RECURSIVE SumOfCounts(_, _)
SumOfCounts(h, S) ==
    IF S = {} THEN 0
    ELSE LET i == CHOOSE x \in S : TRUE IN h[i][2] + SumOfCounts(h, S \ {i})

\* merged is the sum, group by group, of the counted labels of h
IsMergeOf(merged, h) ==
    /\ \A j, k \in 1..Len(merged) : merged[j][1] = merged[k][1] => j = k
    /\ {merged[k][1] : k \in 1..Len(merged)} = {GroupOf(h, i) : i \in CountedLabels(h)}
    /\ \A k \in 1..Len(merged) :
        merged[k][2] = SumOfCounts(h, {i \in CountedLabels(h) : GroupOf(h, i) = merged[k][1]})

\* C19: for every raw histogram, merged[g] is the sum of the counts of the labels
\* that have a positive count, are not "unknown" and resolve to group g; labels
\* with a count <= 0 and "unknown" add no key and no count; {"3": a, "3 or 4 or 5": b}
\* with positive a and b merges to {"3 or 4 or 5": a + b}.
C19_MergedSumsCountedLabelsByGroup ==
    mergeResult # <<>> =>
        /\ IsMergeOf(mergeResult[1].merged, rawVersionStats)
        /\ \A a, b \in 1..MaxCount :
            rawVersionStats = <<<<"3", a>>, <<"3 or 4 or 5", b>>>>
                => mergeResult[1].merged = <<<<"3 or 4 or 5", a + b>>>>

C19_Witness ==
    /\ rawVersionStats = <<<<"3", 1>>, <<"5", 2>>, <<"3_or_4_or_5", 0>>>>
    /\ mergeResult = <<[merged |-> <<<<"3 or 4 or 5", 3>>>>, hadMerges |-> TRUE]>>

----------------------------------------------------------------------------
(* C20 *)

\* C20: hadMerges is true exactly when a counted label resolves to a group that
\* is not its own normalized text, or two distinct counted raw labels resolve to
\* the same group.
C20_HadMergesIffSomeLabelMerged ==
    mergeResult # <<>> =>
        (mergeResult[1].hadMerges <=>
            \/ \E i \in CountedLabels(rawVersionStats) :
                    GroupOf(rawVersionStats, i) # LabelText(rawVersionStats, i)
            \/ \E i, j \in CountedLabels(rawVersionStats) :
                    i # j /\ GroupOf(rawVersionStats, i) = GroupOf(rawVersionStats, j))

\* two raw labels with one normalized text, each its own group
C20_Witness ==
    /\ rawVersionStats = <<<<"3_or_4_or_5", 1>>, <<"3 or 4 or 5", 1>>>>
    /\ mergeResult = <<[merged |-> <<<<"3 or 4 or 5", 2>>>>, hadMerges |-> TRUE]>>

----------------------------------------------------------------------------
(* C21 *)

\* the strings of a sequence, one after the other with glue between them
RECURSIVE Join(_, _)
Join(parts, glue) ==
    IF Len(parts) = 0 THEN ""
    ELSE IF Len(parts) = 1 THEN parts[1]
    ELSE parts[1] \o glue \o Join(Tail(parts), glue)

\* the text of a raw label as the charts show it: every underscore a space
SpacedText(label) == Join(Split(label, "_"), " ")

\* the i-th label of h counts, no ambiguous label of h names it, and no other
\* label of h has its group
AloneInItsGroup(h, i) ==
    /\ i \in CountedLabels(h)
    /\ GroupsNaming(h, i) = {}
    /\ \A j \in 1..Len(h) : j # i => GroupOf(h, j) # GroupOf(h, i)

\* C21 as stated: every key of merged is a label of the raw histogram, and a
\* counted label that is a token of no ambiguous label and shares its group with
\* no other raw label is in merged with its own text and its own count.
C21_MergedKeysAreRawLabels ==
    mergeResult # <<>> =>
        /\ \A k \in 1..Len(mergeResult[1].merged) :
                HasOwn(rawVersionStats, mergeResult[1].merged[k][1])
        /\ \A i \in 1..Len(rawVersionStats) :
                AloneInItsGroup(rawVersionStats, i) =>
                    /\ HasOwn(mergeResult[1].merged, rawVersionStats[i][1])
                    /\ Get(mergeResult[1].merged, rawVersionStats[i][1]) = rawVersionStats[i][2]

\* C21 as amended: every key of merged is the text of a label of the raw
\* histogram with its underscores as spaces, and a counted label that is a token
\* of no ambiguous label and shares its group with no other raw label is in
\* merged under that text with its own count.
C21_MergedKeysAreSpacedRawLabels ==
    mergeResult # <<>> =>
        /\ \A k \in 1..Len(mergeResult[1].merged) :
                \E i \in 1..Len(rawVersionStats) :
                    mergeResult[1].merged[k][1] = SpacedText(rawVersionStats[i][1])
        /\ \A i \in 1..Len(rawVersionStats) :
                AloneInItsGroup(rawVersionStats, i) =>
                    /\ HasOwn(mergeResult[1].merged, SpacedText(rawVersionStats[i][1]))
                    /\ Get(mergeResult[1].merged, SpacedText(rawVersionStats[i][1]))
                            = rawVersionStats[i][2]

\* a label with underscores and a label without, each alone in its group
C21_Witness ==
    /\ rawVersionStats = <<<<"10", 1>>, <<"5_or_6", 2>>>>
    /\ AloneInItsGroup(rawVersionStats, 1)
    /\ AloneInItsGroup(rawVersionStats, 2)
    /\ mergeResult = <<[merged |-> <<<<"10", 1>>, <<"5 or 6", 2>>>>, hadMerges |-> FALSE]>>

----------------------------------------------------------------------------
(* C22 *)

\* repository r has been told that none of the four lockfiles before bun's exists
\* and its package.json, if it parsed, has no packageManager
NoLockfileBeforeBun(r) ==
    /\ Len(checked[r]) >= 5
    /\ checked[r][1] = <<"package.json", TRUE>>
    /\ \A i \in 2..5 : checked[r][i] = <<ProbeOrder[i], FALSE>>
    /\ "package.json" \in DOMAIN fetched[r]
    /\ LET packageJson == JsonParse(fetched[r]["package.json"])
       IN  packageJson.valid => packageJson.packageManager = ""

\* C22: a repository with no packageManager field and none of package-lock.json,
\* npm-shrinkwrap.json, yarn.lock, pnpm-lock.yaml is counted as bun with the version
\* label "1" in the step that finds bun.lockb or bun.lock, and the bun version
\* histogram never has an "unknown" key.
C22_BunLockfileCountsBunOne ==
    /\ [][\A r \in Repos :
            (Answered(r, "bun.lockb", TRUE) \/ Answered(r, "bun.lock", TRUE)) =>
                /\ NoLockfileBeforeBun(r)
                /\ CountsWithVersion("bun", "1")
                /\ pc'[r] = "done"
                /\ counted'[r] = "bun"]_vars
    /\ []("unknown" \notin DOMAIN packageManagerVersionStats.bun)

\* bun.lock alone, after bun.lockb was not found
C22_Witness ==
    \E r \in Repos :
        /\ NoLockfileBeforeBun(r)
        /\ Len(checked[r]) = 7
        /\ checked[r][6] = <<"bun.lockb", FALSE>>
        /\ checked[r][7] = <<"bun.lock", TRUE>>
        /\ counted[r] = "bun"
        /\ packageManagerVersionStats.bun = ("1" :> 1)

----------------------------------------------------------------------------
(* C23 *)

\* the first number written in a label, the label itself when it holds no digit
MajorOf(label) ==
    LET digitsAt == {i \in 1..Len(label) : CharAt(label, i) \in Digits}
    IN  IF digitsAt = {} THEN label
        ELSE LET first == CHOOSE i \in digitsAt : \A j \in digitsAt : i <= j
                 last == CHOOSE i \in digitsAt :
                            /\ first..i \subseteq digitsAt
                            /\ i + 1 \notin digitsAt
             IN  SubSeq(label, first, last)

\* the majors of the labels of h that have a positive count, "unknown" left out
CountedMajors(h) == {MajorOf(h[i][1]) : i \in CountedLabels(h)}

\* a version chart has been written
VersionChartWritten == charts # {}

\* C23: a version chart is written only when the merged version histogram holds
\* more than one distinct major version with a positive count, "unknown" excluded;
\* when its counted labels all share one major, or it has no counted label, no
\* version chart is written.
C23_VersionChartNeedsTwoMajors ==
    /\ VersionChartWritten =>
            /\ mergeResult # <<>>
            /\ Cardinality(CountedMajors(mergeResult[1].merged)) > 1
    /\ (mergeResult # <<>> /\ Cardinality(CountedMajors(mergeResult[1].merged)) <= 1)
            => ~VersionChartWritten

\* two labels of one major merged into one bucket and no chart
C23_Witness ==
    /\ rawVersionStats = <<<<"5", 1>>, <<"5_or_6", 2>>>>
    /\ mergeResult = <<[merged |-> <<<<"5 or 6", 3>>>>, hadMerges |-> TRUE]>>
    /\ ~VersionChartWritten

\* the same on the raw histogram as the classification writes it, where every
\* label has a positive count: no version chart when the counted raw labels all
\* share one major (a label with the count 0 can still lend its group to a token)
C23_RawLabelsOfOneMajorGetNoChart ==
    (/\ mergeResult # <<>>
     /\ \A i \in 1..Len(rawVersionStats) : rawVersionStats[i][2] > 0
     /\ Cardinality(CountedMajors(rawVersionStats)) <= 1)
        => ~VersionChartWritten

----------------------------------------------------------------------------
(* C24 *)

\* the sum of the values of a mapping from keys to numbers
RECURSIVE SumOf(_)
SumOf(counts) ==
    IF DOMAIN counts = {} THEN 0
    ELSE LET k == CHOOSE x \in DOMAIN counts : TRUE
         IN  counts[k] + SumOf([x \in DOMAIN counts \ {k} |-> counts[x]])

\* the run has completed without a fatal error
Completed == phase = "written"

\* C24: after a run that completes without a fatal error the six counters of
\* packageManagerStats add up to stats.nodejs, and stats.nodejs + stats.non_nodejs
\* is stats.total, the number of listed repositories.
C24_OneManagerPerNodejsRepository ==
    Completed =>
        /\ DOMAIN packageManagerStats = PackageManagers
        /\ SumOf(packageManagerStats) = stats.nodejs
        /\ stats.nodejs + stats.non_nodejs = stats.total
        /\ stats.total = Len(flattenedResults)
        /\ \A r \in Repos :
            counted[r] = "none" <=> checked[r][1] = <<"package.json", FALSE>>

\* one repository without package.json, one that ends undetermined
C24_Witness ==
    /\ Completed
    /\ stats.non_nodejs = 1
    /\ stats.nodejs = 1
    /\ packageManagerStats.unknown = 1
    /\ \E r \in Repos :
        /\ Len(checked[r]) = 9
        /\ checked[r][9] = <<".github/workflows/ci.yml", FALSE>>

----------------------------------------------------------------------------
(* C25 *)

\* C25: after a completed run stats.uses_corepack + stats.does_not_use_corepack is
\* stats.nodejs, also for a repository whose package.json is not valid JSON or
\* has an empty packageManager.
C25_CorepackCountersPartitionNodejs ==
    Completed => stats.uses_corepack + stats.does_not_use_corepack = stats.nodejs

----------------------------------------------------------------------------
(* C26 *)

\* C26: after a completed run stats.uses_corepack + stats.has_lockfile +
\* stats.does_not_have_lockfile is stats.nodejs: a repository decided by its
\* packageManager is in neither lockfile counter, every other Node.js repository
\* in exactly one.
C26_LockfileCountersPartitionTheRest ==
    Completed =>
        /\ stats.uses_corepack + stats.has_lockfile + stats.does_not_have_lockfile
                = stats.nodejs
        /\ stats.uses_corepack =
                Cardinality({r \in Repos : Len(checked[r]) = 1 /\ checked[r][1][2]})
        /\ stats.has_lockfile =
                Cardinality({r \in Repos : Len(checked[r]) \in 2..7
                                    /\ checked[r][Len(checked[r])][2]})
        /\ stats.does_not_have_lockfile =
                Cardinality({r \in Repos : Len(checked[r]) >= 7 /\ ~checked[r][7][2]})

\* one repository decided by packageManager, one by a lockfile
C26_Witness ==
    /\ Completed
    /\ stats.nodejs = 2
    /\ stats.uses_corepack = 1
    /\ stats.has_lockfile = 1
    /\ \E r \in Repos : RawPackageJson(r) = PkgTruncated /\ Len(checked[r]) = 5

----------------------------------------------------------------------------
(* C27 *)

\* repository r was counted under manager m from a text: the scripts of its
\* package.json, CONTRIBUTING.md or ci.yml
DetectedFromText(r, m) ==
    /\ pc[r] = "done"
    /\ counted[r] = m
    /\ Len(checked[r]) >= 7
    /\ checked[r][7] = <<"bun.lock", FALSE>>

\* C27: after a completed run the counts of packageManagerVersionStats[m] add up
\* to at most packageManagerStats[m]; to exactly it for yarn_classic and
\* yarn_modern; for npm, pnpm and bun the difference is the number of
\* repositories detected from text.
C27_VersionCountsMatchManagerCounts ==
    Completed =>
        \A m \in VersionedPackageManagers :
            /\ SumOf(packageManagerVersionStats[m]) <= packageManagerStats[m]
            /\ packageManagerStats[m] - SumOf(packageManagerVersionStats[m])
                    = Cardinality({r \in Repos : DetectedFromText(r, m)})
            /\ m \in {"yarn_classic", "yarn_modern"} =>
                    SumOf(packageManagerVersionStats[m]) = packageManagerStats[m]

\* npm once from a lockfile and once from a text
C27_Witness ==
    /\ Completed
    /\ packageManagerStats.npm = 2
    /\ SumOf(packageManagerVersionStats.npm) = 1
    /\ \E r \in Repos : DetectedFromText(r, "npm")

----------------------------------------------------------------------------
(* C28 *)

\* the same labels and counts as h in every order an object can enumerate them
\* in: the array-index keys stay first and ascending, the others come in the
\* order of their insertion
Orders(h) ==
    LET first == Cardinality({i \in 1..Len(h) : IsArrayIndex(h[i][1])})
        others == (first + 1)..Len(h)
    IN  {[i \in 1..Len(h) |-> IF i <= first THEN h[i] ELSE h[q[i]]] :
            q \in {f \in [others -> others] : \A a, b \in others : f[a] = f[b] => a = b}}

\* a histogram as the set of its <<label, count>> pairs
AsMapping(obj) == {obj[i] : i \in 1..Len(obj)}

\* mergeVersionStats gives one merged mapping and one hadMerges for every order of h
SameInEveryOrder(h, result) ==
    \A p \in Orders(h) : \A reordered \in {mergeVersionStats(p)} :
        /\ AsMapping(reordered.merged) = AsMapping(result.merged)
        /\ reordered.hadMerges = result.hadMerges

\* the ambiguous labels of h that name a counted label all have one text
OneGroupPerCountedLabel(h) ==
    \A i \in CountedLabels(h) :
        ~Ambiguous(LabelText(h, i)) =>
            \A j, k \in GroupsNaming(h, i) : LabelText(h, j) = LabelText(h, k)

\* C28 as stated: merged and hadMerges do not depend on the order in which the
\* labels are enumerated, also when one token belongs to two different ambiguous
\* labels.
C28_MergeIsOrderIndependent ==
    mergeResult # <<>> => SameInEveryOrder(rawVersionStats, mergeResult[1])

\* C28 as amended: merged, as a mapping, and hadMerges do not depend on the order
\* of enumeration when no counted label is a token of two ambiguous labels of
\* different text.
C28_MergeIsOrderIndependentForOneGroup ==
    (mergeResult # <<>> /\ OneGroupPerCountedLabel(rawVersionStats))
        => SameInEveryOrder(rawVersionStats, mergeResult[1])

\* three labels that can be enumerated in six orders, two of them one bucket
C28_Witness ==
    /\ rawVersionStats = <<<<"5_or_6", 1>>, <<"3 or 4 or 5", 1>>, <<"3_or_4_or_5", 2>>>>
    /\ Cardinality(Orders(rawVersionStats)) = 6
    /\ \A p \in Orders(rawVersionStats) : p \in RawHistograms
    /\ OneGroupPerCountedLabel(rawVersionStats)
    /\ mergeResult # <<>>
    /\ AsMapping(mergeResult[1].merged) = {<<"5 or 6", 1>>, <<"3 or 4 or 5", 3>>}
    /\ mergeResult[1].hadMerges

----------------------------------------------------------------------------
(* C29 *)

\* C29: merging the merged histogram again returns the same merged mapping, and
\* hadMerges is false on this second pass.
C29_MergeIsIdempotent ==
    mergeResult # <<>> =>
        \A again \in {mergeVersionStats(mergeResult[1].merged)} :
            /\ AsMapping(again.merged) = AsMapping(mergeResult[1].merged)
            /\ again.hadMerges = FALSE

\* a first pass that merged two labels, and the second pass on its result
C29_Witness ==
    /\ rawVersionStats = <<<<"3", 2>>, <<"10", 1>>, <<"3_or_4_or_5", 1>>>>
    /\ mergeResult = <<[merged |-> <<<<"10", 1>>, <<"3 or 4 or 5", 3>>>>, hadMerges |-> TRUE]>>
    /\ mergeVersionStats(mergeResult[1].merged)
            = [merged |-> mergeResult[1].merged, hadMerges |-> FALSE]

----------------------------------------------------------------------------
(* C30 *)

\* Math.ceil(total_count / 30)
PagesOf(total_count) == (total_count + 29) \div 30

\* C30: fetchLanguagePages makes at most MAX_PAGES page requests; after the first
\* response it requests no page beyond ceil(total_count / 30) of the response
\* before; when the search reports total_count = 0 it requests page 1 only.
C30_PagesBoundedByTotalCount ==
    /\ Len(languagePages.requested) <= MAX_PAGES
    /\ \A k \in 2..Len(languagePages.requested) :
            languagePages.requested[k] <= PagesOf(languagePages.results[k - 1].total_count)
    /\ (languagePages.results # <<>> /\ languagePages.results[1].total_count = 0)
            => languagePages.requested = <<1>>

\* the first half of C30 on its own: no more than MAX_PAGES requests, numbered
\* 1, 2, ... in turn, and a call that is not waiting for a page nor about to ask
\* for one has returned or thrown
C30_AtMostMaxPagesRequests ==
    /\ Len(languagePages.requested) <= MAX_PAGES
    /\ \A k \in 1..Len(languagePages.requested) : languagePages.requested[k] = k
    /\ languagePages.i <= MAX_PAGES
    /\ languagePages.pc \in {"loop", "awaiting", "returned", "threw"}

====
